---- MODULE Spec2Model ----
(***************************************************************************)
(* Mocha Codespace (src/main.py): the language execution dispatcher.       *)
(*                                                                         *)
(* The foreground (Qt main thread) runs the handlers of MochaCodespace:    *)
(* on_language_changed, new_file, open_file and run_code, the latter       *)
(* calling get_run_command, which runs compilers and toolchain probes with *)
(* subprocess.run.  Each started RunnerThread executes RunnerThread.run in *)
(* the background; its output/finished signals are queued to the           *)
(* foreground event loop, which calls the connected slots                  *)
(* (console.append, statusBar().showMessage("Ready")).                     *)
(***************************************************************************)
EXTENDS Integers, Sequences, FiniteSets, TLC

VARIABLES
    tab,             \* the current EditorTab: language, filepath, and whether
                     \* the file at filepath holds the text of its editor
    console,         \* self.console: the lines appended since the last clear()
    status,          \* statusBar().currentMessage()
    runner_thread,   \* self.runner_thread: 0 is None, else the thread's number
    fg,              \* position of the foreground context inside run_code
    threads,         \* the RunnerThread objects, by the request that made them
    queue,           \* signals emitted by threads, not yet processed by the event loop
    delivered,       \* per thread: its signals whose slot has been called, in order
    nreq,            \* number of run requests that got past the save step
    log,             \* what run_code and get_run_command did for the latest request
    hl               \* the current tab's CodeEditor: its language, its
                     \* SyntaxHighlighter and the last block of its document

vars == <<tab, console, status, runner_thread, fg, threads, queue, delivered, nreq, log, hl>>

(***************************************************************************)
(* Bounds of the model.                                                    *)
(***************************************************************************)
\* run requests followed when every language and every file may be chosen
MaxRuns == 1

\* run requests followed when the languages are those of ConcLanguages
MaxConcRuns == 2

Requests == 1..(IF MaxRuns > MaxConcRuns THEN MaxRuns ELSE MaxConcRuns)

(***************************************************************************)
(* Paths (pathlib.Path) and argv words.                                    *)
(***************************************************************************)
MkPath(parent, stem, suffix) == [parent |-> parent, stem |-> stem, suffix |-> suffix]

NoPath == MkPath("", "", "")

\* Path.with_suffix
WithSuffix(p, suffix) == MkPath(p.parent, p.stem, suffix)

\* filepath.parent / name
Sibling(p, stem, suffix) == MkPath(p.parent, stem, suffix)

\* an argv word is a literal or str(path)
Lit(s) == [lit |-> s, path |-> NoPath]

Str(p) == [lit |-> "", path |-> p]

\* the working directory str(filepath.parent)
Parent(p) == p.parent

(***************************************************************************)
(* LANG_CONFIG: extension, comment marker and runner of every language.    *)
(* A runner that is a lambda in the source is the tag "callable"; its      *)
(* argv is RunnerLambda.                                                   *)
(***************************************************************************)
Languages ==
    <<"PTX", "Python", "Java", "C", "C++", "JavaScript", "TypeScript", "Rust",
      "Go", "C#", "Ruby", "Kotlin", "HTML", "CSS", "Lua", "Nix">>

LangSet == {Languages[i] : i \in 1..Len(Languages)}

LANG_CONFIG ==
    [l \in LangSet |->
        CASE l = "PTX"        -> [ext |-> ".ptx",  comment |-> "// ",   runner |-> "ptx"]
          [] l = "Python"     -> [ext |-> ".py",   comment |-> "# ",    runner |-> "callable"]
          [] l = "Java"       -> [ext |-> ".java", comment |-> "// ",   runner |-> "java"]
          [] l = "C"          -> [ext |-> ".c",    comment |-> "// ",   runner |-> "c"]
          [] l = "C++"        -> [ext |-> ".cpp",  comment |-> "// ",   runner |-> "cpp"]
          [] l = "JavaScript" -> [ext |-> ".js",   comment |-> "// ",   runner |-> "callable"]
          [] l = "TypeScript" -> [ext |-> ".ts",   comment |-> "// ",   runner |-> "typescript"]
          [] l = "Rust"       -> [ext |-> ".rs",   comment |-> "// ",   runner |-> "rust"]
          [] l = "Go"         -> [ext |-> ".go",   comment |-> "// ",   runner |-> "callable"]
          [] l = "C#"         -> [ext |-> ".cs",   comment |-> "// ",   runner |-> "csharp"]
          [] l = "Ruby"       -> [ext |-> ".rb",   comment |-> "# ",    runner |-> "callable"]
          [] l = "Kotlin"     -> [ext |-> ".kt",   comment |-> "// ",   runner |-> "kotlin"]
          [] l = "HTML"       -> [ext |-> ".html", comment |-> "<!-- ", runner |-> "browser"]
          [] l = "CSS"        -> [ext |-> ".css",  comment |-> "/* ",   runner |-> "browser"]
          [] l = "Lua"        -> [ext |-> ".lua",  comment |-> "-- ",   runner |-> "callable"]
          [] OTHER            -> [ext |-> ".nix",  comment |-> "# ",    runner |-> "nix"]]

\* the lambdas of LANG_CONFIG: lambda f: [<interpreter>, str(f)]
RunnerLambda(language, f) ==
    CASE language = "Python"     -> <<Lit("sys.executable"), Str(f)>>
      [] language = "JavaScript" -> <<Lit("node"), Str(f)>>
      [] language = "Go"         -> <<Lit("go"), Lit("run"), Str(f)>>
      [] language = "Ruby"       -> <<Lit("ruby"), Str(f)>>
      [] OTHER                   -> <<Lit("lua"), Str(f)>>

(***************************************************************************)
(* Text shown to the user.  A message is the f-string that builds it: its  *)
(* kind is the fixed wording, text/path/n are the values formatted in.     *)
(***************************************************************************)
Msg(kind, text, path, n) == [kind |-> kind, text |-> text, path |-> path, n |-> n]

NoMsg == Msg("", "", NoPath, 0)

\* a line of the console: the message, the run request it belongs to and who
\* produced it ("fg": run_code/get_run_command, "thread": a RunnerThread's output)
Line(r, src, m) == [req |-> r, src |-> src, msg |-> m]

(***************************************************************************)
(* What the operating system, the child processes and the user can do.     *)
(***************************************************************************)
\* subprocess.Popen / subprocess.run starting a process: it is started, or
\* Popen raises FileNotFoundError, or another OSError (PermissionError)
SpawnOutcomes == {"spawned", "notfound", "oserror"}

ExitCodes == {0, 1}

\* what a run process writes to stdout and to stderr
StdoutTexts == {"", "out"}

StderrTexts == {"", "err"}

\* what a compiler writes to stderr
CompilerStderr == {"", "diag"}

\* the files the open and save dialogs can return
DialogPaths ==
    {MkPath("/w", "Hello", LANG_CONFIG[l].ext) : l \in LangSet}
        \cup {MkPath("/w", "Hello", ".txt"), MkPath("/w", "flake", ".nix"),
              MkPath("/w", "Hello", ".RS")}

(***************************************************************************)
(* RunnerThread                                                            *)
(***************************************************************************)
\* communicate(timeout=60)
TIMEOUT == 60

\* pc: where run() is; proc: the child process; pout/perr: what the child
\* wrote before it ended; outcome: how the try block ended ("returned",
\* "timeout", "spawn_error", "communicate_error"); stdout/stderr/error: the
\* locals of run(); returncode: process.returncode (-1: None); emitted: the
\* signals emitted so far; raised: an exception left run()
NoThread ==
    [pc |-> "none", proc |-> "none", pout |-> "", perr |-> "", outcome |-> "",
     stdout |-> "", stderr |-> "", returncode |-> -1, error |-> "", emitted |-> <<>>,
     raised |-> FALSE]

\* RunnerThread(command, cwd) followed by start(): run() is about to begin
NewThread == [NoThread EXCEPT !.pc = "popen"]

\* a signal of thread t on its way to the foreground event loop
Event(t, sig, m) == [thread |-> t, sig |-> sig, msg |-> m]

\* self.output.emit(m) / self.finished.emit(): the connected slots live in the
\* foreground thread, so the call is queued; run() goes on at `next`
Emit(t, sig, m, next) ==
    /\ queue' = Append(queue, Event(t, sig, m))
    /\ threads' = [threads EXCEPT ![t].emitted = Append(@, Event(t, sig, m)),
                                  ![t].pc = next]

\* process = subprocess.Popen(self.command, cwd=self.cwd, ...)
ThreadPopen(t, spawn) ==
    /\ threads[t].pc = "popen"
    /\ threads' = [threads EXCEPT
            ![t].pc = IF spawn = "spawned" THEN "communicate" ELSE "except_exception",
            ![t].proc = IF spawn = "spawned" THEN "running" ELSE "none",
            ![t].outcome = IF spawn = "spawned" THEN "" ELSE "spawn_error",
            ![t].error = IF spawn = "spawned" THEN "" ELSE spawn]
    /\ UNCHANGED <<tab, console, status, runner_thread, fg, queue, delivered, nreq, log, hl>>

\* the run process of thread t ends, having written out and err (after a
\* timeout nobody reads its pipes any more)
ChildExit(t, out, err) ==
    /\ threads[t].proc = "running"
    /\ threads[t].pc # "communicate" => (out = "" /\ err = "")
    /\ threads' = [threads EXCEPT ![t].proc = "exited", ![t].pout = out, ![t].perr = err]
    /\ UNCHANGED <<tab, console, status, runner_thread, fg, queue, delivered, nreq, log, hl>>

\* where run() goes on once stdout is dealt with: `if stderr:` skips the
\* emit of an empty stderr
AfterStdout(stderr) == IF stderr # "" THEN "emit_stderr" ELSE "finally"

\* where run() goes on once communicate has returned: `if stdout:` skips the
\* emit of an empty stdout
AfterCommunicate(stdout, stderr) ==
    IF stdout # "" THEN "emit_stdout" ELSE AfterStdout(stderr)

\* stdout, stderr = process.communicate(timeout=60) returns: the process has
\* ended within the timeout, with exit code `code`, which communicate stores
\* in process.returncode
CommunicateReturns(t, code) ==
    /\ threads[t].pc = "communicate"
    /\ threads[t].proc = "exited"
    /\ threads' = [threads EXCEPT ![t].pc = AfterCommunicate(threads[t].pout,
                                                            threads[t].perr),
                                  ![t].outcome = "returned",
                                  ![t].returncode = code,
                                  ![t].stdout = threads[t].pout,
                                  ![t].stderr = threads[t].perr]
    /\ UNCHANGED <<tab, console, status, runner_thread, fg, queue, delivered, nreq, log, hl>>

\* communicate raises another exception than TimeoutExpired (the output of
\* the process does not decode as text, so there is output)
CommunicateRaises(t) ==
    /\ threads[t].pc = "communicate"
    /\ threads[t].proc = "exited"
    /\ threads[t].pout # "" \/ threads[t].perr # ""
    /\ threads' = [threads EXCEPT ![t].pc = "except_exception",
                                  ![t].outcome = "communicate_error",
                                  ![t].error = "decode"]
    /\ UNCHANGED <<tab, console, status, runner_thread, fg, queue, delivered, nreq, log, hl>>

\* CommunicateTimeout for communicate() without timeout: run() stays in the
\* call while the process has not ended
CommunicateNoTimeout(t) ==
    /\ threads[t].pc = "communicate"
    /\ threads[t].proc = "running"
    /\ UNCHANGED <<threads, tab, console, status, runner_thread, fg, queue, delivered, nreq, log, hl>>

\* communicate raises TimeoutExpired: TIMEOUT seconds have passed and the
\* process has not ended.  Nothing in run() ends the process.
CommunicateTimeout(t) ==
    /\ threads[t].pc = "communicate"
    /\ threads[t].proc = "running"
    /\ threads' = [threads EXCEPT ![t].pc = "except_timeout", ![t].outcome = "timeout"]
    /\ UNCHANGED <<tab, console, status, runner_thread, fg, queue, delivered, nreq, log, hl>>

\* EmitStdout with the stderr block in an elif of the stdout block
EmitStdoutElif(t) ==
    /\ threads[t].pc = "emit_stdout"
    /\ Emit(t, "output", Msg("Text", threads[t].stdout, NoPath, 0), "finally")
    /\ UNCHANGED <<tab, console, status, runner_thread, fg, delivered, nreq, log, hl>>

\* if stdout: self.output.emit(stdout)
EmitStdout(t) ==
    /\ threads[t].pc = "emit_stdout"
    /\ Emit(t, "output", Msg("Text", threads[t].stdout, NoPath, 0),
            AfterStdout(threads[t].stderr))
    /\ UNCHANGED <<tab, console, status, runner_thread, fg, delivered, nreq, log, hl>>

\* EmitStderr calling console.append itself, as a direct connection would
EmitStderrDirect(t) ==
    /\ threads[t].pc = "emit_stderr"
    /\ threads' = [threads EXCEPT ![t].pc = "finally"]
    /\ console' = Append(console, Line(t, "thread", Msg("Text", threads[t].stderr, NoPath, 0)))
    /\ UNCHANGED <<tab, status, runner_thread, fg, queue, delivered, nreq, log, hl>>

\* if stderr: self.output.emit(stderr)
EmitStderr(t) ==
    /\ threads[t].pc = "emit_stderr"
    /\ Emit(t, "output", Msg("Text", threads[t].stderr, NoPath, 0), "finally")
    /\ UNCHANGED <<tab, console, status, runner_thread, fg, delivered, nreq, log, hl>>

\* ExceptTimeout that also emits the output the exception carries
ExceptTimeoutWithOutput(t) ==
    /\ threads[t].pc = "except_timeout"
    /\ queue' = queue \o <<Event(t, "output", Msg("Timeout", "", NoPath, TIMEOUT)),
                           Event(t, "output", Msg("Text", "partial", NoPath, 0))>>
    /\ threads' = [threads EXCEPT
            ![t].emitted = @ \o <<Event(t, "output", Msg("Timeout", "", NoPath, TIMEOUT)),
                                  Event(t, "output", Msg("Text", "partial", NoPath, 0))>>,
            ![t].pc = "finally"]
    /\ UNCHANGED <<tab, console, status, runner_thread, fg, delivered, nreq, log, hl>>

\* except subprocess.TimeoutExpired: self.output.emit("[Execution timeout ...]")
ExceptTimeout(t) ==
    /\ threads[t].pc = "except_timeout"
    /\ Emit(t, "output", Msg("Timeout", "", NoPath, TIMEOUT), "finally")
    /\ UNCHANGED <<tab, console, status, runner_thread, fg, delivered, nreq, log, hl>>

\* ExceptException as "except FileNotFoundError": any other exception goes
\* through the finally block and leaves run()
ExceptFileNotFoundOnly(t) ==
    /\ threads[t].pc = "except_exception"
    /\ IF threads[t].error = "notfound"
       THEN Emit(t, "output", Msg("Error", threads[t].error, NoPath, 0), "finally")
       ELSE /\ threads' = [threads EXCEPT ![t].pc = "finally", ![t].raised = TRUE]
            /\ UNCHANGED queue
    /\ UNCHANGED <<tab, console, status, runner_thread, fg, delivered, nreq, log, hl>>

\* except Exception as e: self.output.emit(f"[Error: {str(e)}]")
ExceptException(t) ==
    /\ threads[t].pc = "except_exception"
    /\ Emit(t, "output", Msg("Error", threads[t].error, NoPath, 0), "finally")
    /\ UNCHANGED <<tab, console, status, runner_thread, fg, delivered, nreq, log, hl>>

\* Finally with finished.emit() as the last statement of the try block
\* instead: it is not reached when an exception was raised
FinallyInTryBlock(t) ==
    /\ threads[t].pc = "finally"
    /\ IF threads[t].outcome = "returned"
       THEN Emit(t, "finished", NoMsg, "done")
       ELSE /\ threads' = [threads EXCEPT ![t].pc = "done"]
            /\ UNCHANGED queue
    /\ UNCHANGED <<tab, console, status, runner_thread, fg, delivered, nreq, log, hl>>

\* finally: self.finished.emit()
Finally(t) ==
    /\ threads[t].pc = "finally"
    /\ Emit(t, "finished", NoMsg, "done")
    /\ UNCHANGED <<tab, console, status, runner_thread, fg, delivered, nreq, log, hl>>

(***************************************************************************)
(* MochaCodespace.get_run_command                                          *)
(***************************************************************************)
CompiledRunners == {"java", "c", "cpp", "rust", "typescript", "kotlin"}

\* exe = filepath.with_suffix(".out")
Exe(filepath) == WithSuffix(filepath, ".out")

\* js_file = filepath.with_suffix(".js")
JsFile(filepath) == WithSuffix(filepath, ".js")

\* jar_file = filepath.parent / "output.jar"
JarFile(filepath) == Sibling(filepath, "output", ".jar")

\* compile_cmd of each compiling branch
CompileCmd(runner, filepath) ==
    CASE runner = "java"       -> <<Lit("javac"), Str(filepath)>>
      [] runner = "c"          -> <<Lit("gcc"), Str(filepath), Lit("-o"), Str(Exe(filepath))>>
      [] runner = "cpp"        -> <<Lit("g++"), Str(filepath), Lit("-o"), Str(Exe(filepath))>>
      [] runner = "rust"       -> <<Lit("rustc"), Str(filepath), Lit("-o"), Str(Exe(filepath))>>
      [] runner = "typescript" -> <<Lit("tsc"), Str(filepath)>>
      [] runner = "kotlin"     -> <<Lit("kotlinc"), Str(filepath), Lit("-include-runtime"),
                                    Lit("-d"), Str(JarFile(filepath))>>
      [] OTHER                 -> <<>>

\* CompiledRunCmd with the rust branch running the file rustc writes when it
\* is given no -o (the source name without suffix)
CompiledRunCmdRustDefault(runner, filepath) ==
    CASE runner = "java"       -> <<Lit("java"), Lit(filepath.stem)>>
      [] runner = "c"          -> <<Str(Exe(filepath))>>
      [] runner = "cpp"        -> <<Str(Exe(filepath))>>
      [] runner = "rust"       -> <<Str(WithSuffix(filepath, ""))>>
      [] runner = "typescript" -> <<Lit("node"), Str(JsFile(filepath))>>
      [] runner = "kotlin"     -> <<Lit("java"), Lit("-jar"), Str(JarFile(filepath))>>
      [] OTHER                 -> <<>>

\* the command each compiling branch returns after a successful compile
\* (for typescript: after the node probe succeeded too)
CompiledRunCmd(runner, filepath) ==
    CASE runner = "java"       -> <<Lit("java"), Lit(filepath.stem)>>
      [] runner = "c"          -> <<Str(Exe(filepath))>>
      [] runner = "cpp"        -> <<Str(Exe(filepath))>>
      [] runner = "rust"       -> <<Str(Exe(filepath))>>
      [] runner = "typescript" -> <<Lit("node"), Str(JsFile(filepath))>>
      [] runner = "kotlin"     -> <<Lit("java"), Lit("-jar"), Str(JarFile(filepath))>>
      [] OTHER                 -> <<>>

\* NotFoundMsg with the cpp branch's message copied from the c branch
NotFoundMsgCopied(runner) ==
    CASE runner = "java"       -> Msg("CompilerNotFound", "javac", NoPath, 0)
      [] runner = "c"          -> Msg("CompilerNotFound", "gcc", NoPath, 0)
      [] runner = "cpp"        -> Msg("CompilerNotFound", "gcc", NoPath, 0)
      [] runner = "rust"       -> Msg("CompilerNotFound", "rustc", NoPath, 0)
      [] runner = "typescript" -> Msg("CompilerNotFound", "tsc", NoPath, 0)
      [] runner = "kotlin"     -> Msg("CompilerNotFound", "kotlinc", NoPath, 0)
      [] runner = "csharp"     -> Msg("SdkNotFound", ".NET SDK", NoPath, 0)
      [] OTHER                 -> Msg("SdkNotFound", "Nix", NoPath, 0)

\* except FileNotFoundError: self.console.append("<X> compiler (<tool>) not found in PATH")
NotFoundMsg(runner) ==
    CASE runner = "java"       -> Msg("CompilerNotFound", "javac", NoPath, 0)
      [] runner = "c"          -> Msg("CompilerNotFound", "gcc", NoPath, 0)
      [] runner = "cpp"        -> Msg("CompilerNotFound", "g++", NoPath, 0)
      [] runner = "rust"       -> Msg("CompilerNotFound", "rustc", NoPath, 0)
      [] runner = "typescript" -> Msg("CompilerNotFound", "tsc", NoPath, 0)
      [] runner = "kotlin"     -> Msg("CompilerNotFound", "kotlinc", NoPath, 0)
      [] runner = "csharp"     -> Msg("SdkNotFound", ".NET SDK", NoPath, 0)
      [] OTHER                 -> Msg("SdkNotFound", "Nix", NoPath, 0)

\* CompilationFailedMsg without the compiler's stderr
CompilationFailedNoText(stderr) == Msg("CompilationFailed", "", NoPath, 0)

\* except subprocess.CalledProcessError as e:
\*     self.console.append(f"Compilation failed:\n{e.stderr}\n")
CompilationFailedMsg(stderr) == Msg("CompilationFailed", stderr, NoPath, 0)

\* the nix branch: flake.nix or any other file
NixCmd(filepath) ==
    IF filepath.stem = "flake" /\ filepath.suffix = ".nix"
    THEN <<Lit("nix"), Lit("develop"), Lit(".")>>
    ELSE <<Lit("nix-shell"), Str(filepath)>>

\* the probe a branch runs with subprocess.run([tool, "--version"], check=True)
ProbeCmd(runner) ==
    CASE runner = "typescript" -> <<Lit("node"), Lit("--version")>>
      [] runner = "csharp"     -> <<Lit("dotnet"), Lit("--version")>>
      [] OTHER                 -> <<Lit("nix"), Lit("--version")>>

(***************************************************************************)
(* The foreground context inside run_code / get_run_command.  subprocess.run*)
(* blocks the caller until the child process has ended: while fg.pc is a   *)
(* "wait_..." value the foreground is inside that call, for request fg.req.*)
(***************************************************************************)
Idle == [pc |-> "idle", req |-> 0]

WaitStates == {"wait_compile", "wait_probe", "wait_dotnet_new"}

\* what is recorded about a run request: the tab it ran, how its compile step
\* and its probe ended, the command get_run_command returned (<<>>: None),
\* the RunnerThread arguments, what was handed to webbrowser.open
NoLog ==
    [state |-> "unused", language |-> "", filepath |-> NoPath, runner |-> "",
     compile |-> "none", cstderr |-> "", probe |-> "none", command |-> <<>>,
     cwd |-> "", started |-> FALSE, opened |-> NoPath]

\* the part of the state a handler works on
Frame ==
    [console |-> console, status |-> status, runner_thread |-> runner_thread,
     threads |-> threads, fg |-> fg, log |-> log]

\* the handler's result becomes the next state
Apply(S) ==
    /\ console' = S.console
    /\ status' = S.status
    /\ runner_thread' = S.runner_thread
    /\ threads' = S.threads
    /\ fg' = S.fg
    /\ log' = S.log

\* self.console.append(m) in run_code or get_run_command, for request r
Say(S, r, m) == [S EXCEPT !.console = Append(@, Line(r, "fg", m))]

\* the handler returns to the event loop
Return(S) == [S EXCEPT !.fg = Idle, !.log.state = "returned"]

\* an exception leaves the handler
Raise(S) == [S EXCEPT !.fg = Idle, !.log.state = "raised"]

\* the handler is inside subprocess.run, waiting for the child process to end
Block(S, r, pc) == [S EXCEPT !.fg = [pc |-> pc, req |-> r]]

\* run_code after get_run_command: no command, or the RunnerThread is made,
\* connected and started
RunCodeTail(S, r, command) ==
    IF command = <<>>
    THEN Return([Say(S, r, Msg("CannotRun", S.log.language, NoPath, 0))
                    EXCEPT !.status = "Ready"])
    ELSE Return([S EXCEPT !.runner_thread = r,
                          !.threads[r] = NewThread,
                          !.log.command = command,
                          !.log.cwd = Parent(S.log.filepath),
                          !.log.started = TRUE])

\* OpenInBrowser handing the file to a viewer process run by a RunnerThread
OpenInBrowserByCommand(S, r, filepath) ==
    RunCodeTail(S, r, <<Lit("xdg-open"), Str(filepath)>>)

\* run_code, runner == "browser": webbrowser.open(str(tab.filepath.resolve().as_uri())),
\* the message about it, "Ready", return
OpenInBrowser(S, r, filepath) ==
    Return([Say([S EXCEPT !.log.opened = filepath], r,
                Msg("OpenedInBrowser", "", filepath, 0))
               EXCEPT !.status = "Ready"])

\* NodeFallback opening the TypeScript source instead of the compiled file
NodeFallbackOpensSource(S, r) ==
    RunCodeTail(
        Say([S EXCEPT !.log.opened = S.log.filepath, !.log.probe = "missing"],
            r, Msg("NodeFallback", "", NoPath, 0)),
        r, <<>>)

\* webbrowser.open(str(js_file.resolve().as_uri())) and the message about it;
\* get_run_command returns None
NodeFallback(S, r) ==
    RunCodeTail(
        Say([S EXCEPT !.log.opened = JsFile(S.log.filepath), !.log.probe = "missing"],
            r, Msg("NodeFallback", "", NoPath, 0)),
        r, <<>>)

\* subprocess.run(["node", "--version"], check=True, capture_output=True)
\* begins after a successful tsc
NodeProbe(S, r, spawn) ==
    CASE spawn = "spawned"  -> Block(S, r, "wait_probe")
      [] spawn = "notfound" -> NodeFallback(S, r)
      [] OTHER              -> Raise([S EXCEPT !.log.probe = "oserror"])

\* get_run_command up to its first subprocess.run
GetRunCommand(S, r, spawn) ==
    LET runner == S.log.runner
        filepath == S.log.filepath
    IN  CASE runner = "callable" ->
                RunCodeTail(S, r, RunnerLambda(S.log.language, filepath))
          [] runner \in CompiledRunners ->
                CASE spawn = "spawned"  -> Block(S, r, "wait_compile")
                  [] spawn = "notfound" ->
                        RunCodeTail(Say([S EXCEPT !.log.compile = "missing"],
                                        r, NotFoundMsg(runner)), r, <<>>)
                  [] OTHER -> Raise([S EXCEPT !.log.compile = "oserror"])
          [] runner \in {"csharp", "nix"} ->
                CASE spawn = "spawned"  -> Block(S, r, "wait_probe")
                  [] spawn = "notfound" ->
                        RunCodeTail(Say([S EXCEPT !.log.probe = "missing"],
                                        r, NotFoundMsg(runner)), r, <<>>)
                  [] OTHER -> Raise([S EXCEPT !.log.probe = "oserror"])
          [] OTHER -> RunCodeTail(S, r, <<>>)

\* the compiler has ended and subprocess.run(compile_cmd, check=True, ...) returns
\* or raises CalledProcessError; get_run_command goes on to its next
\* subprocess.run or to its end
AfterCompile(S, r, code, err, spawn) ==
    LET runner == S.log.runner
        T == [S EXCEPT !.log.cstderr = err]
    IN  IF code # 0
        THEN RunCodeTail(Say([T EXCEPT !.log.compile = "failed"],
                             r, CompilationFailedMsg(err)), r, <<>>)
        ELSE LET U == [T EXCEPT !.log.compile = "ok"]
                 V == IF err # "" THEN Say(U, r, Msg("CompilerOutput", err, NoPath, 0))
                                  ELSE U
             IN  IF runner = "typescript"
                 THEN NodeProbe(V, r, spawn)
                 ELSE RunCodeTail(V, r, CompiledRunCmd(runner, S.log.filepath))

\* the probe has ended; exists: proj_dir / "project.csproj" exists
AfterProbe(S, r, code, exists) ==
    LET runner == S.log.runner
        ok == [S EXCEPT !.log.probe = "ok"]
    IN  CASE runner = "typescript" ->
                IF code = 0
                THEN RunCodeTail(ok, r, CompiledRunCmd(runner, S.log.filepath))
                ELSE NodeFallback(S, r)
          [] runner = "csharp" ->
                IF code # 0
                THEN RunCodeTail(Say([S EXCEPT !.log.probe = "failed"],
                                     r, NotFoundMsg(runner)), r, <<>>)
                ELSE IF exists
                     THEN RunCodeTail(ok, r, <<Lit("dotnet"), Lit("run")>>)
                     ELSE Block(ok, r, "wait_dotnet_new")
          [] OTHER ->
                IF code # 0
                THEN RunCodeTail(Say([S EXCEPT !.log.probe = "failed"],
                                     r, NotFoundMsg(runner)), r, <<>>)
                ELSE RunCodeTail(ok, r, NixCmd(S.log.filepath))

(***************************************************************************)
(* SyntaxHighlighter.  A block of text is a sequence of characters         *)
(* (strings of length 1); positions count from 1.  A format is named by    *)
(* the category it shows: keyword_format is "Keyword", string_format       *)
(* "String", number_format "Number", function_format "CallTarget",         *)
(* comment_format "Comment"; "None" is a character without format.         *)
(***************************************************************************)
LANGUAGE_KEYWORDS ==
    [l \in LangSet |->
        CASE l = "PTX" ->
              <<<<"A", "L", "2", "P">>, <<"A", "L", "D">>, <<"A", "S", "T">>, <<"B", "2", "R">>,
                <<"B", "F", "E">>, <<"B", "F", "I">>, <<"B", "M", "M", "A">>, <<"B", "M", "O", "V">>,
                <<"B", "M", "S", "K">>, <<"B", "R", "E", "V">>, <<"B", "R", "K">>,
                <<"C", "C", "T", "L">>, <<"C", "C", "T", "L", "L">>, <<"C", "C", "T", "L", "T">>,
                <<"C", "O", "N", "T">>, <<"C", "S", "2", "R">>, <<"C", "S", "E", "T">>,
                <<"C", "S", "E", "T", "P">>, <<"D", "A", "D", "D">>, <<"D", "E", "P", "B", "A", "R">>,
                <<"D", "F", "M", "A">>, <<"D", "M", "M", "A">>, <<"D", "M", "N", "M", "X">>,
                <<"D", "M", "U", "L">>, <<"D", "S", "E", "T">>, <<"D", "S", "E", "T", "P">>,
                <<"F", "2", "F">>, <<"F", "2", "F", "P">>, <<"F", "2", "I">>, <<"F", "2", "I", "P">>,
                <<"F", "A", "D", "D">>, <<"F", "A", "D", "D", "3", "2", "I">>, <<"F", "C", "H", "K">>,
                <<"F", "C", "M", "P">>, <<"F", "F", "M", "A">>, <<"F", "F", "M", "A", "3", "2", "I">>,
                <<"F", "L", "O">>, <<"F", "M", "N", "M", "X">>, <<"F", "M", "U", "L">>,
                <<"F", "M", "U", "L", "3", "2", "I">>, <<"F", "R", "N", "D">>, <<"F", "S", "E", "L">>,
                <<"F", "S", "E", "T">>, <<"F", "S", "E", "T", "P">>,
                <<"F", "S", "W", "Z", "A", "D", "D">>, <<"G", "E", "T", "C", "R", "S", "P", "T", "R">>,
                <<"G", "E", "T", "L", "M", "E", "M", "B", "A", "S", "E">>, <<"H", "A", "D", "D", "2">>,
                <<"H", "F", "M", "A", "2">>, <<"H", "M", "M", "A">>, <<"H", "M", "N", "M", "X", "2">>,
                <<"H", "M", "U", "L", "2">>, <<"H", "S", "E", "T", "2">>,
                <<"H", "S", "E", "T", "P", "2">>, <<"I", "2", "F">>, <<"I", "2", "F", "P">>,
                <<"I", "2", "I">>, <<"I", "2", "I", "P">>, <<"I", "A", "B", "S">>,
                <<"I", "A", "D", "D">>, <<"I", "A", "D", "D", "3">>,
                <<"I", "A", "D", "D", "3", "2", "I">>, <<"I", "C", "M", "P">>, <<"I", "D", "E">>,
                <<"I", "D", "P">>, <<"I", "M", "A", "D">>, <<"I", "M", "A", "D", "3", "2", "I">>,
                <<"I", "M", "A", "D", "S", "P">>, <<"I", "M", "M", "A">>, <<"I", "M", "N", "M", "X">>,
                <<"I", "M", "U", "L">>, <<"I", "M", "U", "L", "3", "2", "I">>, <<"I", "P", "A">>,
                <<"I", "S", "B", "E", "R", "D">>, <<"I", "S", "B", "E", "W", "R">>,
                <<"I", "S", "C", "A", "D", "D">>, <<"I", "S", "C", "A", "D", "D", "3", "2", "I">>,
                <<"I", "S", "E", "T">>, <<"I", "S", "E", "T", "P">>, <<"J", "C", "A", "L">>,
                <<"L", "D", "C">>, <<"L", "D", "G", "D", "E", "P", "B", "A", "R">>,
                <<"L", "D", "G", "S", "T", "S">>, <<"L", "E", "A">>, <<"L", "E", "P", "C">>,
                <<"L", "O", "N", "G", "J", "M", "P">>, <<"L", "O", "P">>, <<"L", "O", "P", "3">>,
                <<"L", "O", "P", "3", "2", "I">>, <<"M", "A", "T", "C", "H">>, <<"M", "O", "V">>,
                <<"M", "O", "V", "3", "2", "I">>, <<"M", "O", "V", "M">>, <<"M", "U", "F", "U">>,
                <<"N", "O", "P">>, <<"O", "U", "T">>, <<"P", "2", "R">>, <<"P", "C", "N", "T">>,
                <<"P", "E", "X", "I", "T">>, <<"P", "I", "X", "L", "D">>,
                <<"P", "L", "O", "N", "G", "J", "M", "P">>, <<"P", "L", "O", "P", "3">>,
                <<"P", "O", "P", "C">>, <<"P", "R", "M", "T">>, <<"P", "S", "E", "T">>,
                <<"P", "S", "E", "T", "P">>, <<"Q", "S", "P", "C">>, <<"R", "2", "B">>,
                <<"R", "2", "P">>, <<"R", "2", "U", "R">>, <<"R", "A", "M">>,
                <<"R", "E", "D", "U", "X">>, <<"R", "R", "O">>, <<"R", "T", "T">>, <<"S", "2", "R">>,
                <<"S", "2", "U", "R">>, <<"S", "A", "M">>, <<"S", "E", "L">>,
                <<"S", "E", "T", "C", "R", "S", "P", "T", "R">>,
                <<"S", "E", "T", "L", "M", "E", "M", "B", "A", "S", "E">>, <<"S", "G", "X", "T">>,
                <<"S", "H", "F">>, <<"S", "H", "F", "L">>, <<"S", "H", "L">>, <<"S", "H", "R">>,
                <<"S", "T", "P">>, <<"T", "L", "D", "4", "S">>, <<"T", "L", "D", "S">>,
                <<"T", "M", "M", "L">>, <<"T", "X", "A">>, <<"T", "X", "D">>, <<"T", "X", "Q">>,
                <<"U", "B", "R", "E", "V">>, <<"U", "F", "L", "O">>, <<"U", "I", "A", "D", "D", "3">>,
                <<"U", "I", "M", "A", "D">>, <<"U", "I", "S", "E", "T", "P">>, <<"U", "L", "D", "C">>,
                <<"U", "L", "E", "A">>, <<"U", "L", "O", "P", "3">>, <<"U", "M", "O", "V">>,
                <<"U", "P", "2", "U", "R">>, <<"U", "P", "L", "O", "P", "3">>,
                <<"U", "P", "O", "P", "C">>, <<"U", "P", "R", "M", "T">>, <<"U", "S", "E", "L">>,
                <<"U", "S", "G", "X", "T">>, <<"U", "S", "H", "F">>,
                <<"V", "A", "B", "S", "D", "I", "F", "F">>,
                <<"V", "A", "B", "S", "D", "I", "F", "F", "4">>, <<"V", "A", "D", "D">>,
                <<"V", "M", "A", "D">>, <<"V", "M", "N", "M", "X">>, <<"V", "O", "T", "E">>,
                <<"V", "O", "T", "E", "U">>, <<"V", "S", "E", "T">>, <<"V", "S", "E", "T", "P">>,
                <<"V", "S", "H", "L">>, <<"V", "S", "H", "R">>, <<"X", "M", "A", "D">>>>
          [] l = "Python" ->
              <<<<"a", "n", "d">>, <<"a", "s">>, <<"a", "s", "s", "e", "r", "t">>,
                <<"a", "s", "y", "n", "c">>, <<"a", "w", "a", "i", "t">>, <<"b", "r", "e", "a", "k">>,
                <<"c", "l", "a", "s", "s">>, <<"c", "o", "n", "t", "i", "n", "u", "e">>,
                <<"d", "e", "f">>, <<"d", "e", "l">>, <<"e", "l", "i", "f">>, <<"e", "l", "s", "e">>,
                <<"e", "x", "c", "e", "p", "t">>, <<"F", "a", "l", "s", "e">>,
                <<"f", "i", "n", "a", "l", "l", "y">>, <<"f", "o", "r">>, <<"f", "r", "o", "m">>,
                <<"g", "l", "o", "b", "a", "l">>, <<"i", "f">>, <<"i", "m", "p", "o", "r", "t">>,
                <<"i", "n">>, <<"i", "s">>, <<"l", "a", "m", "b", "d", "a">>, <<"N", "o", "n", "e">>,
                <<"n", "o", "n", "l", "o", "c", "a", "l">>, <<"n", "o", "t">>, <<"o", "r">>,
                <<"p", "a", "s", "s">>, <<"r", "a", "i", "s", "e">>, <<"r", "e", "t", "u", "r", "n">>,
                <<"T", "r", "u", "e">>, <<"t", "r", "y">>, <<"w", "h", "i", "l", "e">>,
                <<"w", "i", "t", "h">>, <<"y", "i", "e", "l", "d">>, <<"p", "r", "i", "n", "t">>,
                <<"l", "e", "n">>, <<"r", "a", "n", "g", "e">>, <<"s", "t", "r">>, <<"i", "n", "t">>,
                <<"f", "l", "o", "a", "t">>, <<"l", "i", "s", "t">>, <<"d", "i", "c", "t">>,
                <<"s", "e", "t">>, <<"t", "u", "p", "l", "e">>, <<"o", "p", "e", "n">>,
                <<"s", "e", "l", "f">>, <<"_", "_", "i", "n", "i", "t", "_", "_">>>>
          [] l = "Java" ->
              <<<<"a", "b", "s", "t", "r", "a", "c", "t">>, <<"a", "s", "s", "e", "r", "t">>,
                <<"b", "o", "o", "l", "e", "a", "n">>, <<"b", "r", "e", "a", "k">>,
                <<"b", "y", "t", "e">>, <<"c", "a", "s", "e">>, <<"c", "a", "t", "c", "h">>,
                <<"c", "h", "a", "r">>, <<"c", "l", "a", "s", "s">>, <<"c", "o", "n", "s", "t">>,
                <<"c", "o", "n", "t", "i", "n", "u", "e">>, <<"d", "e", "f", "a", "u", "l", "t">>,
                <<"d", "o">>, <<"d", "o", "u", "b", "l", "e">>, <<"e", "l", "s", "e">>,
                <<"e", "n", "u", "m">>, <<"e", "x", "t", "e", "n", "d", "s">>,
                <<"f", "i", "n", "a", "l">>, <<"f", "i", "n", "a", "l", "l", "y">>,
                <<"f", "l", "o", "a", "t">>, <<"f", "o", "r">>, <<"i", "f">>,
                <<"i", "m", "p", "l", "e", "m", "e", "n", "t", "s">>, <<"i", "m", "p", "o", "r", "t">>,
                <<"i", "n", "s", "t", "a", "n", "c", "e", "o", "f">>, <<"i", "n", "t">>,
                <<"i", "n", "t", "e", "r", "f", "a", "c", "e">>, <<"l", "o", "n", "g">>,
                <<"n", "a", "t", "i", "v", "e">>, <<"n", "e", "w">>,
                <<"p", "a", "c", "k", "a", "g", "e">>, <<"p", "r", "i", "v", "a", "t", "e">>,
                <<"p", "r", "o", "t", "e", "c", "t", "e", "d">>, <<"p", "u", "b", "l", "i", "c">>,
                <<"r", "e", "t", "u", "r", "n">>, <<"s", "h", "o", "r", "t">>,
                <<"s", "t", "a", "t", "i", "c">>, <<"s", "t", "r", "i", "c", "t", "f", "p">>,
                <<"s", "u", "p", "e", "r">>, <<"s", "w", "i", "t", "c", "h">>,
                <<"s", "y", "n", "c", "h", "r", "o", "n", "i", "z", "e", "d">>, <<"t", "h", "i", "s">>,
                <<"t", "h", "r", "o", "w">>, <<"t", "h", "r", "o", "w", "s">>,
                <<"t", "r", "a", "n", "s", "i", "e", "n", "t">>, <<"t", "r", "y">>,
                <<"v", "o", "i", "d">>, <<"v", "o", "l", "a", "t", "i", "l", "e">>,
                <<"w", "h", "i", "l", "e">>, <<"S", "t", "r", "i", "n", "g">>,
                <<"S", "y", "s", "t", "e", "m">>, <<"o", "u", "t">>,
                <<"p", "r", "i", "n", "t", "l", "n">>, <<"m", "a", "i", "n">>, <<"a", "r", "g", "s">>>>
          [] l = "C" ->
              <<<<"a", "u", "t", "o">>, <<"b", "r", "e", "a", "k">>, <<"c", "a", "s", "e">>,
                <<"c", "h", "a", "r">>, <<"c", "o", "n", "s", "t">>,
                <<"c", "o", "n", "t", "i", "n", "u", "e">>, <<"d", "e", "f", "a", "u", "l", "t">>,
                <<"d", "o">>, <<"d", "o", "u", "b", "l", "e">>, <<"e", "l", "s", "e">>,
                <<"e", "n", "u", "m">>, <<"e", "x", "t", "e", "r", "n">>, <<"f", "l", "o", "a", "t">>,
                <<"f", "o", "r">>, <<"g", "o", "t", "o">>, <<"i", "f">>, <<"i", "n", "t">>,
                <<"l", "o", "n", "g">>, <<"r", "e", "g", "i", "s", "t", "e", "r">>,
                <<"r", "e", "t", "u", "r", "n">>, <<"s", "h", "o", "r", "t">>,
                <<"s", "i", "g", "n", "e", "d">>, <<"s", "i", "z", "e", "o", "f">>,
                <<"s", "t", "a", "t", "i", "c">>, <<"s", "t", "r", "u", "c", "t">>,
                <<"s", "w", "i", "t", "c", "h">>, <<"t", "y", "p", "e", "d", "e", "f">>,
                <<"u", "n", "i", "o", "n">>, <<"u", "n", "s", "i", "g", "n", "e", "d">>,
                <<"v", "o", "i", "d">>, <<"v", "o", "l", "a", "t", "i", "l", "e">>,
                <<"w", "h", "i", "l", "e">>, <<"p", "r", "i", "n", "t", "f">>,
                <<"s", "c", "a", "n", "f">>, <<"m", "a", "l", "l", "o", "c">>, <<"f", "r", "e", "e">>,
                <<"N", "U", "L", "L">>, <<"i", "n", "c", "l", "u", "d", "e">>,
                <<"d", "e", "f", "i", "n", "e">>, <<"s", "t", "d", "i", "o">>,
                <<"s", "t", "d", "l", "i", "b">>, <<"s", "t", "r", "i", "n", "g">>>>
          [] l = "C++" ->
              <<<<"a", "l", "i", "g", "n", "a", "s">>, <<"a", "l", "i", "g", "n", "o", "f">>,
                <<"a", "n", "d">>, <<"a", "n", "d", "_", "e", "q">>, <<"a", "s", "m">>,
                <<"a", "u", "t", "o">>, <<"b", "i", "t", "a", "n", "d">>, <<"b", "i", "t", "o", "r">>,
                <<"b", "o", "o", "l">>, <<"b", "r", "e", "a", "k">>, <<"c", "a", "s", "e">>,
                <<"c", "a", "t", "c", "h">>, <<"c", "h", "a", "r">>, <<"c", "l", "a", "s", "s">>,
                <<"c", "o", "n", "s", "t">>, <<"c", "o", "n", "s", "t", "e", "x", "p", "r">>,
                <<"c", "o", "n", "t", "i", "n", "u", "e">>, <<"d", "e", "c", "l", "t", "y", "p", "e">>,
                <<"d", "e", "f", "a", "u", "l", "t">>, <<"d", "e", "l", "e", "t", "e">>, <<"d", "o">>,
                <<"d", "o", "u", "b", "l", "e">>,
                <<"d", "y", "n", "a", "m", "i", "c", "_", "c", "a", "s", "t">>, <<"e", "l", "s", "e">>,
                <<"e", "n", "u", "m">>, <<"e", "x", "p", "l", "i", "c", "i", "t">>,
                <<"e", "x", "p", "o", "r", "t">>, <<"e", "x", "t", "e", "r", "n">>,
                <<"f", "a", "l", "s", "e">>, <<"f", "l", "o", "a", "t">>, <<"f", "o", "r">>,
                <<"f", "r", "i", "e", "n", "d">>, <<"g", "o", "t", "o">>, <<"i", "f">>,
                <<"i", "n", "l", "i", "n", "e">>, <<"i", "n", "t">>, <<"l", "o", "n", "g">>,
                <<"m", "u", "t", "a", "b", "l", "e">>, <<"n", "a", "m", "e", "s", "p", "a", "c", "e">>,
                <<"n", "e", "w">>, <<"n", "o", "e", "x", "c", "e", "p", "t">>, <<"n", "o", "t">>,
                <<"n", "u", "l", "l", "p", "t", "r">>, <<"o", "p", "e", "r", "a", "t", "o", "r">>,
                <<"o", "r">>, <<"p", "r", "i", "v", "a", "t", "e">>,
                <<"p", "r", "o", "t", "e", "c", "t", "e", "d">>, <<"p", "u", "b", "l", "i", "c">>,
                <<"r", "e", "t", "u", "r", "n">>, <<"s", "h", "o", "r", "t">>,
                <<"s", "i", "g", "n", "e", "d">>, <<"s", "i", "z", "e", "o", "f">>,
                <<"s", "t", "a", "t", "i", "c">>, <<"s", "t", "r", "u", "c", "t">>,
                <<"s", "w", "i", "t", "c", "h">>, <<"t", "e", "m", "p", "l", "a", "t", "e">>,
                <<"t", "h", "i", "s">>, <<"t", "h", "r", "o", "w">>, <<"t", "r", "u", "e">>,
                <<"t", "r", "y">>, <<"t", "y", "p", "e", "d", "e", "f">>,
                <<"t", "y", "p", "e", "i", "d">>, <<"t", "y", "p", "e", "n", "a", "m", "e">>,
                <<"u", "n", "i", "o", "n">>, <<"u", "n", "s", "i", "g", "n", "e", "d">>,
                <<"u", "s", "i", "n", "g">>, <<"v", "i", "r", "t", "u", "a", "l">>,
                <<"v", "o", "i", "d">>, <<"v", "o", "l", "a", "t", "i", "l", "e">>,
                <<"w", "h", "i", "l", "e">>, <<"c", "o", "u", "t">>, <<"c", "i", "n">>,
                <<"e", "n", "d", "l">>, <<"s", "t", "r", "i", "n", "g">>,
                <<"v", "e", "c", "t", "o", "r">>, <<"i", "o", "s", "t", "r", "e", "a", "m">>,
                <<"s", "t", "d">>>>
          [] l = "JavaScript" ->
              <<<<"a", "s", "y", "n", "c">>, <<"a", "w", "a", "i", "t">>, <<"b", "r", "e", "a", "k">>,
                <<"c", "a", "s", "e">>, <<"c", "a", "t", "c", "h">>, <<"c", "l", "a", "s", "s">>,
                <<"c", "o", "n", "s", "t">>, <<"c", "o", "n", "t", "i", "n", "u", "e">>,
                <<"d", "e", "b", "u", "g", "g", "e", "r">>, <<"d", "e", "f", "a", "u", "l", "t">>,
                <<"d", "e", "l", "e", "t", "e">>, <<"d", "o">>, <<"e", "l", "s", "e">>,
                <<"e", "x", "p", "o", "r", "t">>, <<"e", "x", "t", "e", "n", "d", "s">>,
                <<"f", "a", "l", "s", "e">>, <<"f", "i", "n", "a", "l", "l", "y">>, <<"f", "o", "r">>,
                <<"f", "u", "n", "c", "t", "i", "o", "n">>, <<"i", "f">>,
                <<"i", "m", "p", "o", "r", "t">>, <<"i", "n">>,
                <<"i", "n", "s", "t", "a", "n", "c", "e", "o", "f">>, <<"l", "e", "t">>,
                <<"n", "e", "w">>, <<"n", "u", "l", "l">>, <<"r", "e", "t", "u", "r", "n">>,
                <<"s", "u", "p", "e", "r">>, <<"s", "w", "i", "t", "c", "h">>, <<"t", "h", "i", "s">>,
                <<"t", "h", "r", "o", "w">>, <<"t", "r", "u", "e">>, <<"t", "r", "y">>,
                <<"t", "y", "p", "e", "o", "f">>, <<"v", "a", "r">>, <<"v", "o", "i", "d">>,
                <<"w", "h", "i", "l", "e">>, <<"w", "i", "t", "h">>, <<"y", "i", "e", "l", "d">>,
                <<"c", "o", "n", "s", "o", "l", "e">>, <<"l", "o", "g">>,
                <<"d", "o", "c", "u", "m", "e", "n", "t">>, <<"w", "i", "n", "d", "o", "w">>,
                <<"A", "r", "r", "a", "y">>, <<"O", "b", "j", "e", "c", "t">>,
                <<"S", "t", "r", "i", "n", "g">>, <<"N", "u", "m", "b", "e", "r">>,
                <<"B", "o", "o", "l", "e", "a", "n">>, <<"M", "a", "t", "h">>, <<"D", "a", "t", "e">>,
                <<"J", "S", "O", "N">>, <<"P", "r", "o", "m", "i", "s", "e">>,
                <<"s", "e", "t", "T", "i", "m", "e", "o", "u", "t">>>>
          [] l = "TypeScript" ->
              <<<<"a", "b", "s", "t", "r", "a", "c", "t">>, <<"a", "n", "y">>, <<"a", "s">>,
                <<"a", "s", "y", "n", "c">>, <<"a", "w", "a", "i", "t">>,
                <<"b", "o", "o", "l", "e", "a", "n">>, <<"b", "r", "e", "a", "k">>,
                <<"c", "a", "s", "e">>, <<"c", "a", "t", "c", "h">>, <<"c", "l", "a", "s", "s">>,
                <<"c", "o", "n", "s", "t">>, <<"c", "o", "n", "t", "i", "n", "u", "e">>,
                <<"d", "e", "b", "u", "g", "g", "e", "r">>, <<"d", "e", "c", "l", "a", "r", "e">>,
                <<"d", "e", "f", "a", "u", "l", "t">>, <<"d", "e", "l", "e", "t", "e">>, <<"d", "o">>,
                <<"e", "l", "s", "e">>, <<"e", "n", "u", "m">>, <<"e", "x", "p", "o", "r", "t">>,
                <<"e", "x", "t", "e", "n", "d", "s">>, <<"f", "a", "l", "s", "e">>,
                <<"f", "i", "n", "a", "l", "l", "y">>, <<"f", "o", "r">>, <<"f", "r", "o", "m">>,
                <<"f", "u", "n", "c", "t", "i", "o", "n">>, <<"i", "f">>,
                <<"i", "m", "p", "l", "e", "m", "e", "n", "t", "s">>, <<"i", "m", "p", "o", "r", "t">>,
                <<"i", "n">>, <<"i", "n", "s", "t", "a", "n", "c", "e", "o", "f">>,
                <<"i", "n", "t", "e", "r", "f", "a", "c", "e">>, <<"i", "s">>,
                <<"k", "e", "y", "o", "f">>, <<"l", "e", "t">>, <<"m", "o", "d", "u", "l", "e">>,
                <<"n", "a", "m", "e", "s", "p", "a", "c", "e">>, <<"n", "e", "v", "e", "r">>,
                <<"n", "e", "w">>, <<"n", "u", "l", "l">>, <<"n", "u", "m", "b", "e", "r">>,
                <<"o", "f">>, <<"p", "a", "c", "k", "a", "g", "e">>,
                <<"p", "r", "i", "v", "a", "t", "e">>, <<"p", "r", "o", "t", "e", "c", "t", "e", "d">>,
                <<"p", "u", "b", "l", "i", "c">>, <<"r", "e", "a", "d", "o", "n", "l", "y">>,
                <<"r", "e", "q", "u", "i", "r", "e">>, <<"r", "e", "t", "u", "r", "n">>,
                <<"s", "t", "a", "t", "i", "c">>, <<"s", "t", "r", "i", "n", "g">>,
                <<"s", "u", "p", "e", "r">>, <<"s", "w", "i", "t", "c", "h">>,
                <<"s", "y", "m", "b", "o", "l">>, <<"t", "h", "i", "s">>, <<"t", "h", "r", "o", "w">>,
                <<"t", "r", "u", "e">>, <<"t", "r", "y">>, <<"t", "y", "p", "e">>,
                <<"t", "y", "p", "e", "o", "f">>, <<"u", "n", "d", "e", "f", "i", "n", "e", "d">>,
                <<"u", "n", "i", "q", "u", "e">>, <<"u", "n", "k", "n", "o", "w", "n">>,
                <<"v", "a", "r">>, <<"v", "o", "i", "d">>, <<"w", "h", "i", "l", "e">>,
                <<"w", "i", "t", "h">>, <<"y", "i", "e", "l", "d">>>>
          [] l = "Rust" ->
              <<<<"a", "s">>, <<"a", "s", "y", "n", "c">>, <<"a", "w", "a", "i", "t">>,
                <<"b", "r", "e", "a", "k">>, <<"c", "o", "n", "s", "t">>,
                <<"c", "o", "n", "t", "i", "n", "u", "e">>, <<"c", "r", "a", "t", "e">>,
                <<"d", "y", "n">>, <<"e", "l", "s", "e">>, <<"e", "n", "u", "m">>,
                <<"e", "x", "t", "e", "r", "n">>, <<"f", "a", "l", "s", "e">>, <<"f", "n">>,
                <<"f", "o", "r">>, <<"i", "f">>, <<"i", "m", "p", "l">>, <<"i", "n">>, <<"l", "e", "t">>,
                <<"l", "o", "o", "p">>, <<"m", "a", "t", "c", "h">>, <<"m", "o", "d">>,
                <<"m", "o", "v", "e">>, <<"m", "u", "t">>, <<"p", "u", "b">>, <<"r", "e", "f">>,
                <<"r", "e", "t", "u", "r", "n">>, <<"s", "e", "l", "f">>, <<"S", "e", "l", "f">>,
                <<"s", "t", "a", "t", "i", "c">>, <<"s", "t", "r", "u", "c", "t">>,
                <<"s", "u", "p", "e", "r">>, <<"t", "r", "a", "i", "t">>, <<"t", "r", "u", "e">>,
                <<"t", "y", "p", "e">>, <<"u", "n", "s", "a", "f", "e">>, <<"u", "s", "e">>,
                <<"w", "h", "e", "r", "e">>, <<"w", "h", "i", "l", "e">>,
                <<"S", "t", "r", "i", "n", "g">>, <<"V", "e", "c">>, <<"O", "p", "t", "i", "o", "n">>,
                <<"R", "e", "s", "u", "l", "t">>, <<"p", "r", "i", "n", "t", "l", "n">>,
                <<"p", "r", "i", "n", "t">>, <<"f", "o", "r", "m", "a", "t">>,
                <<"p", "a", "n", "i", "c">>, <<"u", "n", "w", "r", "a", "p">>,
                <<"e", "x", "p", "e", "c", "t">>>>
          [] l = "Go" ->
              <<<<"b", "r", "e", "a", "k">>, <<"c", "a", "s", "e">>, <<"c", "h", "a", "n">>,
                <<"c", "o", "n", "s", "t">>, <<"c", "o", "n", "t", "i", "n", "u", "e">>,
                <<"d", "e", "f", "a", "u", "l", "t">>, <<"d", "e", "f", "e", "r">>,
                <<"e", "l", "s", "e">>, <<"f", "a", "l", "l", "t", "h", "r", "o", "u", "g", "h">>,
                <<"f", "o", "r">>, <<"f", "u", "n", "c">>, <<"g", "o">>, <<"g", "o", "t", "o">>,
                <<"i", "f">>, <<"i", "m", "p", "o", "r", "t">>,
                <<"i", "n", "t", "e", "r", "f", "a", "c", "e">>, <<"m", "a", "p">>,
                <<"p", "a", "c", "k", "a", "g", "e">>, <<"r", "a", "n", "g", "e">>,
                <<"r", "e", "t", "u", "r", "n">>, <<"s", "e", "l", "e", "c", "t">>,
                <<"s", "t", "r", "u", "c", "t">>, <<"s", "w", "i", "t", "c", "h">>,
                <<"t", "y", "p", "e">>, <<"v", "a", "r">>, <<"f", "m", "t">>,
                <<"P", "r", "i", "n", "t", "l", "n">>, <<"P", "r", "i", "n", "t", "f">>,
                <<"S", "p", "r", "i", "n", "t", "f">>, <<"m", "a", "i", "n">>,
                <<"s", "t", "r", "i", "n", "g">>, <<"i", "n", "t">>, <<"b", "o", "o", "l">>,
                <<"f", "l", "o", "a", "t", "6", "4">>, <<"e", "r", "r", "o", "r">>, <<"n", "i", "l">>,
                <<"t", "r", "u", "e">>, <<"f", "a", "l", "s", "e">>, <<"m", "a", "k", "e">>,
                <<"l", "e", "n">>, <<"a", "p", "p", "e", "n", "d">>>>
          [] l = "Ruby" ->
              <<<<"a", "l", "i", "a", "s">>, <<"a", "n", "d">>, <<"b", "e", "g", "i", "n">>,
                <<"b", "r", "e", "a", "k">>, <<"c", "a", "s", "e">>, <<"c", "l", "a", "s", "s">>,
                <<"d", "e", "f">>, <<"d", "e", "f", "i", "n", "e", "d">>, <<"d", "o">>,
                <<"e", "l", "s", "e">>, <<"e", "l", "s", "i", "f">>, <<"e", "n", "d">>,
                <<"e", "n", "s", "u", "r", "e">>, <<"f", "a", "l", "s", "e">>, <<"f", "o", "r">>,
                <<"i", "f">>, <<"i", "n">>, <<"m", "o", "d", "u", "l", "e">>, <<"n", "e", "x", "t">>,
                <<"n", "i", "l">>, <<"n", "o", "t">>, <<"o", "r">>, <<"r", "e", "d", "o">>,
                <<"r", "e", "s", "c", "u", "e">>, <<"r", "e", "t", "r", "y">>,
                <<"r", "e", "t", "u", "r", "n">>, <<"s", "e", "l", "f">>, <<"s", "u", "p", "e", "r">>,
                <<"t", "h", "e", "n">>, <<"t", "r", "u", "e">>, <<"u", "n", "d", "e", "f">>,
                <<"u", "n", "l", "e", "s", "s">>, <<"u", "n", "t", "i", "l">>, <<"w", "h", "e", "n">>,
                <<"w", "h", "i", "l", "e">>, <<"y", "i", "e", "l", "d">>, <<"p", "u", "t", "s">>,
                <<"p", "r", "i", "n", "t">>, <<"g", "e", "t", "s">>,
                <<"a", "t", "t", "r", "_", "a", "c", "c", "e", "s", "s", "o", "r">>,
                <<"a", "t", "t", "r", "_", "r", "e", "a", "d", "e", "r">>,
                <<"a", "t", "t", "r", "_", "w", "r", "i", "t", "e", "r">>,
                <<"i", "n", "i", "t", "i", "a", "l", "i", "z", "e">>, <<"n", "e", "w">>,
                <<"r", "e", "q", "u", "i", "r", "e">>>>
          [] l = "HTML" ->
              <<<<"h", "t", "m", "l">>, <<"h", "e", "a", "d">>, <<"t", "i", "t", "l", "e">>,
                <<"b", "o", "d", "y">>, <<"d", "i", "v">>, <<"s", "p", "a", "n">>, <<"p">>, <<"a">>,
                <<"i", "m", "g">>, <<"u", "l">>, <<"o", "l">>, <<"l", "i">>, <<"t", "a", "b", "l", "e">>,
                <<"t", "r">>, <<"t", "d">>, <<"t", "h">>, <<"f", "o", "r", "m">>,
                <<"i", "n", "p", "u", "t">>, <<"b", "u", "t", "t", "o", "n">>,
                <<"s", "e", "l", "e", "c", "t">>, <<"o", "p", "t", "i", "o", "n">>,
                <<"t", "e", "x", "t", "a", "r", "e", "a">>, <<"l", "a", "b", "e", "l">>, <<"h", "1">>,
                <<"h", "2">>, <<"h", "3">>, <<"h", "4">>, <<"h", "5">>, <<"h", "6">>,
                <<"h", "e", "a", "d", "e", "r">>, <<"f", "o", "o", "t", "e", "r">>, <<"n", "a", "v">>,
                <<"s", "e", "c", "t", "i", "o", "n">>, <<"a", "r", "t", "i", "c", "l", "e">>,
                <<"a", "s", "i", "d", "e">>, <<"m", "a", "i", "n">>, <<"s", "c", "r", "i", "p", "t">>,
                <<"s", "t", "y", "l", "e">>, <<"l", "i", "n", "k">>, <<"m", "e", "t", "a">>,
                <<"b", "r">>, <<"h", "r">>, <<"s", "t", "r", "o", "n", "g">>, <<"e", "m">>,
                <<"c", "o", "d", "e">>, <<"p", "r", "e">>>>
          [] l = "CSS" ->
              <<<<"c", "o", "l", "o", "r">>, <<"b", "a", "c", "k", "g", "r", "o", "u", "n", "d">>,
                <<"b", "a", "c", "k", "g", "r", "o", "u", "n", "d", "-", "c", "o", "l", "o", "r">>,
                <<"f", "o", "n", "t", "-", "f", "a", "m", "i", "l", "y">>,
                <<"f", "o", "n", "t", "-", "s", "i", "z", "e">>,
                <<"f", "o", "n", "t", "-", "w", "e", "i", "g", "h", "t">>,
                <<"m", "a", "r", "g", "i", "n">>, <<"p", "a", "d", "d", "i", "n", "g">>,
                <<"b", "o", "r", "d", "e", "r">>, <<"w", "i", "d", "t", "h">>,
                <<"h", "e", "i", "g", "h", "t">>, <<"d", "i", "s", "p", "l", "a", "y">>,
                <<"p", "o", "s", "i", "t", "i", "o", "n">>, <<"t", "o", "p">>, <<"l", "e", "f", "t">>,
                <<"r", "i", "g", "h", "t">>, <<"b", "o", "t", "t", "o", "m">>, <<"f", "l", "e", "x">>,
                <<"g", "r", "i", "d">>,
                <<"j", "u", "s", "t", "i", "f", "y", "-", "c", "o", "n", "t", "e", "n", "t">>,
                <<"a", "l", "i", "g", "n", "-", "i", "t", "e", "m", "s">>,
                <<"t", "e", "x", "t", "-", "a", "l", "i", "g", "n">>, <<"c", "u", "r", "s", "o", "r">>,
                <<"t", "r", "a", "n", "s", "i", "t", "i", "o", "n">>,
                <<"t", "r", "a", "n", "s", "f", "o", "r", "m">>, <<"o", "p", "a", "c", "i", "t", "y">>,
                <<"z", "-", "i", "n", "d", "e", "x">>, <<"o", "v", "e", "r", "f", "l", "o", "w">>,
                <<"b", "o", "x", "-", "s", "h", "a", "d", "o", "w">>>>
          [] OTHER -> <<>>]

Letters ==
    {"a", "b", "c", "d", "e", "f", "g", "h", "i", "j", "k", "l", "m", "n", "o", "p", "q",
     "r", "s", "t", "u", "v", "w", "x", "y", "z", "A", "B", "C", "D", "E", "F", "G", "H",
     "I", "J", "K", "L", "M", "N", "O", "P", "Q", "R", "S", "T", "U", "V", "W", "X", "Y",
     "Z"}

\* \d
Digits == {"0", "1", "2", "3", "4", "5", "6", "7", "8", "9"}

\* \w
WordChars == Letters \cup Digits \cup {"_"}

\* the character at position i; "" before the first and after the last
CharAt(text, i) == IF i >= 1 /\ i <= Len(text) THEN text[i] ELSE ""

\* \b in front of position i
Boundary(text, i) == (CharAt(text, i - 1) \in WordChars) # (CharAt(text, i) \in WordChars)

\* the literal w stands at position i
HasAt(text, i, w) ==
    /\ i + Len(w) - 1 <= Len(text)
    /\ \A k \in 1..Len(w) : text[i + k - 1] = w[k]

\* the position after the longest run of characters of `class` from position i
RECURSIVE RunEnd(_, _, _)
RunEnd(text, i, class) ==
    IF CharAt(text, i) \in class THEN RunEnd(text, i + 1, class) ELSE i

\* [^q\\]*(\\.[^q\\]*)*q from position i: the position after the closing
\* quote, 0 if there is none
RECURSIVE StringEnd(_, _, _)
StringEnd(text, i, q) ==
    IF i > Len(text) THEN 0
    ELSE IF text[i] = q THEN i + 1
    ELSE IF text[i] = "\\" THEN (IF i + 1 > Len(text) THEN 0 ELSE StringEnd(text, i + 2, q))
    ELSE StringEnd(text, i + 1, q)

\* .*?close from position i: the position after the first `close`, 0 if none
RECURSIVE CloseEnd(_, _, _)
CloseEnd(text, i, close) ==
    IF i + Len(close) - 1 > Len(text) THEN 0
    ELSE IF HasAt(text, i, close) THEN i + Len(close)
    ELSE CloseEnd(text, i + 1, close)

\* NumberEnd for \d*\.?\d*, without the word boundaries and with digits
\* that may be missing
NumberEndUnanchored(text, i) ==
    LET e1 == RunEnd(text, i, Digits)
    IN  RunEnd(text, IF CharAt(text, e1) = "." THEN e1 + 1 ELSE e1, Digits)

\* \b\d+\.?\d*\b at position i: the longest alternative that ends at a \b
NumberEnd(text, i) ==
    LET e1 == RunEnd(text, i, Digits)
        e2 == RunEnd(text, e1 + 1, Digits)
    IN  IF ~Boundary(text, i) \/ e1 = i THEN 0
        ELSE IF CharAt(text, e1) = "." /\ Boundary(text, e2) THEN e2
        ELSE IF CharAt(text, e1) = "." /\ Boundary(text, e1 + 1) THEN e1 + 1
        ELSE IF Boundary(text, e1) THEN e1
        ELSE 0

\* the rules of setup_rules: a compiled pattern and its format
KeywordRule(word) == [kind |-> "keyword", fmt |-> "Keyword", a |-> word, b |-> <<>>]

StringRule(q) == [kind |-> "string", fmt |-> "String", a |-> <<q>>, b |-> <<>>]

NumberRule == [kind |-> "number", fmt |-> "Number", a |-> <<>>, b |-> <<>>]

FunctionRule == [kind |-> "function", fmt |-> "CallTarget", a |-> <<>>, b |-> <<>>]

\* marker[^\n]*
LineComment(marker) == [kind |-> "line", fmt |-> "Comment", a |-> marker, b |-> <<>>]

\* open.*?close with re.DOTALL
BlockComment(open, close) == [kind |-> "block", fmt |-> "Comment", a |-> open, b |-> close]

\* FunctionEnd for \b[A-Za-z_][A-Za-z0-9_]*\(, which takes the parenthesis
\* into the match
FunctionEndWithParen(text, i) ==
    LET e == RunEnd(text, i, WordChars)
    IN  IF Boundary(text, i) /\ CharAt(text, i) \in Letters \cup {"_"} /\ CharAt(text, e) = "("
        THEN e + 1 ELSE 0

\* \b[A-Za-z_][A-Za-z0-9_]*(?=\() at position i
FunctionEnd(text, i) ==
    LET e == RunEnd(text, i, WordChars)
    IN  IF Boundary(text, i) /\ CharAt(text, i) \in Letters \cup {"_"} /\ CharAt(text, e) = "("
        THEN e ELSE 0

\* pattern.match at position i: the position after the match (i itself for
\* a match without characters), 0 if the pattern does not match there
MatchEnd(rule, text, i) ==
    CASE rule.kind = "keyword" ->
            IF HasAt(text, i, rule.a) /\ Boundary(text, i) /\ Boundary(text, i + Len(rule.a))
            THEN i + Len(rule.a) ELSE 0
      [] rule.kind = "string" ->
            IF CharAt(text, i) = rule.a[1] THEN StringEnd(text, i + 1, rule.a[1]) ELSE 0
      [] rule.kind = "number" -> NumberEnd(text, i)
      [] rule.kind = "function" -> FunctionEnd(text, i)
      [] rule.kind = "line" ->
            IF HasAt(text, i, rule.a) THEN Len(text) + 1 ELSE 0
      [] OTHER ->
            IF HasAt(text, i, rule.a) THEN CloseEnd(text, i + Len(rule.a), rule.b) ELSE 0

\* pattern.finditer(text): the matches from position i on, leftmost first,
\* each search going on where the match before ended (one position further
\* after a match without characters), up to the position after the last
\* character
RECURSIVE FindIter(_, _, _)
FindIter(rule, text, i) ==
    IF i > Len(text) + 1 THEN <<>>
    ELSE LET e == MatchEnd(rule, text, i)
         IN  IF e = 0 THEN FindIter(rule, text, i + 1)
             ELSE <<[start |-> i, end |-> e]>>
                    \o FindIter(rule, text, IF e = i THEN i + 1 ELSE e)

\* the comment rules of setup_rules
CommentRules(language) ==
    IF language \in {"Python", "Ruby", "Nix"} THEN <<LineComment(<<"#">>)>>
    ELSE IF language = "Lua" THEN <<LineComment(<<"-", "-">>)>>
    ELSE IF language \in {"C", "C++", "Java", "JavaScript", "TypeScript", "Rust", "Go",
                          "C#", "Kotlin"}
         THEN <<LineComment(<<"/", "/">>), BlockComment(<<"/", "*">>, <<"*", "/">>)>>
    ELSE IF language = "HTML"
         THEN <<BlockComment(<<"<", "!", "-", "-">>, <<"-", "-", ">">>)>>
    ELSE IF language = "CSS" THEN <<BlockComment(<<"/", "*">>, <<"*", "/">>)>>
    ELSE <<>>

\* Keywords with the keywords of the default language for a language that
\* has none
KeywordsOrPython(language) ==
    IF language \in DOMAIN LANGUAGE_KEYWORDS /\ LANGUAGE_KEYWORDS[language] # <<>>
    THEN LANGUAGE_KEYWORDS[language]
    ELSE LANGUAGE_KEYWORDS["Python"]

\* keywords = LANGUAGE_KEYWORDS.get(self.language, [])
Keywords(language) ==
    IF language \in DOMAIN LANGUAGE_KEYWORDS THEN LANGUAGE_KEYWORDS[language] ELSE <<>>

\* setup_rules with the comment rules appended first
setup_rules_comments_first(language) ==
    CommentRules(language)
        \o [i \in 1..Len(Keywords(language)) |-> KeywordRule(Keywords(language)[i])]
        \o <<StringRule("\""), StringRule("'")>>
        \o <<NumberRule>>
        \o <<FunctionRule>>

\* setup_rules: self.rules for self.language
setup_rules(language) ==
    [i \in 1..Len(Keywords(language)) |-> KeywordRule(Keywords(language)[i])]
        \o <<StringRule("\""), StringRule("'")>>
        \o <<NumberRule>>
        \o <<FunctionRule>>
        \o CommentRules(language)

\* setFormat that leaves a character that has a format as it is
setFormatIfNone(formats, start, length, fmt) ==
    [k \in DOMAIN formats |->
        IF k >= start /\ k < start + length /\ formats[k] = "None" THEN fmt ELSE formats[k]]

\* self.setFormat(start, length, format_style)
setFormat(formats, start, length, fmt) ==
    [k \in DOMAIN formats |-> IF k >= start /\ k < start + length THEN fmt ELSE formats[k]]

\* for match in pattern.finditer(text): self.setFormat(...)
RECURSIVE ApplyMatches(_, _, _)
ApplyMatches(formats, matches, fmt) ==
    IF matches = <<>> THEN formats
    ELSE ApplyMatches(setFormat(formats, Head(matches).start,
                                Head(matches).end - Head(matches).start, fmt),
                      Tail(matches), fmt)

\* for pattern, format_style in self.rules: ..., for the rules lo..hi in list
\* order: the rules of the first half of the range, then those of the second
\* (a block without characters has nothing to format)
RECURSIVE ApplyRules(_, _, _, _, _)
ApplyRules(formats, rules, lo, hi, text) ==
    IF Len(formats) = 0 \/ lo > hi THEN formats
    ELSE IF lo = hi
         THEN ApplyMatches(formats, FindIter(rules[lo], text, 1), rules[lo].fmt)
    ELSE ApplyRules(ApplyRules(formats, rules, lo, (lo + hi) \div 2, text),
                    rules, ((lo + hi) \div 2) + 1, hi, text)

\* the formats of a block before highlightBlock is called for it
NoFormats(text) == [k \in 1..Len(text) |-> "None"]

\* highlightBlock(text)
highlightBlock(rules, text) == ApplyRules(NoFormats(text), rules, 1, Len(rules), text)

\* longest block the user types character by character
MaxBlockLen == 3

\* the characters the user types
Chars == {"#", "/", "i", "f", "1", "\"", "("}

\* the lines the user pastes into an empty block
SampleBlocks ==
    {<<"#", " ", "i", "f", " ", "T", "r", "u", "e">>,
     <<"x", " ", "=", " ", "1", " ", " ", "#", " ", "c">>,
     <<"f", "o", "o", "(", "b", "a", "r", ")">>,
     <<"<", "!", "-", "-", "a", "-", "-", ">">>,
     <<"/", "*", "i", "f", "*", "/", " ", "i", "f">>,
     <<"-", "-", " ", "i", "f">>,
     <<"\"", "i", "f", "\"", " ", "1", ".", "5">>,
     <<"/", "/", " ", "i", "f", "(", "1", ")">>,
     <<"i", "f", " ", "'", "a", "'", " ", "/", "*">>,
     <<"1", ".", "a", " ", "1", ".", " ", "2">>}

\* A highlighter's self.rules is kept as `built`: the languages whose rules
\* setup_rules has appended to the list since the list was last empty, in
\* the order of the appends.  The list itself is Rules(h).
RECURSIVE RulesOf(_)
RulesOf(built) ==
    IF built = <<>> THEN <<>> ELSE setup_rules(Head(built)) \o RulesOf(Tail(built))

\* self.rules
Rules(h) == RulesOf(h.built)

\* setup_rules called on a highlighter without self.rules = []
RebuildKeepingOld(built, language) == Append(built, language)

\* setup_rules called on a highlighter: self.rules = [], then the appends
\* for self.language
Rebuild(built, language) == <<language>>

\* CodeEditor(language=language): self.language and
\* SyntaxHighlighter(self.document(), language), whose __init__ sets
\* self.language and calls setup_rules(); the document is empty
NewEditor(language) ==
    [pc |-> "done", editor_language |-> language, language |-> language,
     built |-> Rebuild(<<>>, language), text |-> <<>>, formats |-> <<>>]

\* the editor of the first tab
FirstHighlighter == NewEditor(Languages[1])

\* SyntaxHighlighter.set_language(language): self.language, setup_rules(),
\* rehighlight(), which makes QSyntaxHighlighter call highlightBlock for the
\* block again
set_language(h, language) ==
    [h EXCEPT !.pc = "called", !.language = language,
              !.built = Rebuild(h.built, language),
              !.formats = NoFormats(h.text)]

\* CodeEditor.set_language(language)
EditorSetLanguage(h, language) ==
    set_language([h EXCEPT !.editor_language = language], language)

\* EditorTab.load_content: setPlainText replaces the document, and
\* QSyntaxHighlighter calls highlightBlock for its blocks before setPlainText
\* returns.  Every text that load_content puts into the document
\* (SAMPLE_CODE[language], a file) ends with a line end: the last block is
\* empty.
LoadContent(h) ==
    [h EXCEPT !.pc = "done", !.text = <<>>, !.formats = highlightBlock(Rules(h), <<>>)]

\* the user types c at the end of the block: the document changes and
\* QSyntaxHighlighter calls highlightBlock for the block
TypeChar(c) ==
    /\ hl.pc = "done"
    /\ Len(hl.text) < MaxBlockLen
    /\ hl' = [hl EXCEPT !.pc = "called", !.text = Append(@, c),
                        !.formats = NoFormats(Append(hl.text, c))]
    /\ tab' = [tab EXCEPT !.saved = FALSE]
    /\ UNCHANGED <<console, status, runner_thread, fg, threads, queue, delivered, nreq, log>>

\* the user pastes a line into the empty block
PasteLine(line) ==
    /\ hl.pc = "done"
    /\ hl.text = <<>>
    /\ hl' = [hl EXCEPT !.pc = "called", !.text = line, !.formats = NoFormats(line)]
    /\ tab' = [tab EXCEPT !.saved = FALSE]
    /\ UNCHANGED <<console, status, runner_thread, fg, threads, queue, delivered, nreq, log>>

\* the call of highlightBlock(text) runs
HighlightBlock ==
    /\ hl.pc = "called"
    /\ hl' = [hl EXCEPT !.pc = "done",
                        !.formats = highlightBlock(Rules(hl), hl.text)]
    /\ UNCHANGED <<tab, console, status, runner_thread, fg, threads, queue, delivered, nreq, log>>

(***************************************************************************)
(* EditorTab and the handlers of MochaCodespace.  `limit` is the number of *)
(* run requests the model follows: after the last one the user's further   *)
(* tab changes are not followed.                                           *)
(***************************************************************************)
\* EditorTab.save(filepath): self.filepath = Path(filepath), then the
\* extension of the tab's language is forced onto it
SaveFilepath(language, filepath) ==
    LET ext == LANG_CONFIG[language].ext
    IN  IF ext # "" /\ filepath.suffix # ext THEN WithSuffix(filepath, ext) ELSE filepath

\* str.lower() of the suffixes the dialogs can return
Lower(suffix) == IF suffix = ".RS" THEN ".rs" ELSE suffix

\* DefaultLanguage as the first language of LANG_CONFIG
DefaultLanguageFirst == Languages[1]

\* open_file: language = "Python"  # default
DefaultLanguage == "Python"

\* DetectFrom with a loop that stops before the last language
RECURSIVE DetectFromButLast(_, _)
DetectFromButLast(i, ext) ==
    IF i >= Len(Languages) THEN DefaultLanguage
    ELSE IF LANG_CONFIG[Languages[i]].ext = ext THEN Languages[i]
    ELSE DetectFromButLast(i + 1, ext)

\* open_file: the first language, in the order of LANG_CONFIG, whose extension
\* is ext; the default if there is none
RECURSIVE DetectFrom(_, _)
DetectFrom(i, ext) ==
    IF i > Len(Languages) THEN DefaultLanguage
    ELSE IF LANG_CONFIG[Languages[i]].ext = ext THEN Languages[i]
    ELSE DetectFrom(i + 1, ext)

\* ext = filepath.suffix.lower(), then the loop over LANG_CONFIG.items()
DetectLanguage(suffix) == DetectFrom(1, Lower(suffix))

\* OnLanguageChanged without the call of tab.editor.set_language
OnLanguageChangedTabOnly(limit, language) ==
    /\ fg.pc = "idle"
    /\ hl.pc = "done"
    /\ nreq < limit
    /\ tab.filepath = NoPath
    /\ tab' = [tab EXCEPT !.language = language]
    /\ hl' = LoadContent(hl)
    /\ UNCHANGED <<console, status, runner_thread, fg, threads, queue, delivered, nreq, log>>

\* the user picks `language` in lang_combo: on_language_changed(language)
OnLanguageChanged(limit, language) ==
    /\ fg.pc = "idle"
    /\ hl.pc = "done"
    /\ nreq < limit
    /\ tab.filepath = NoPath
    /\ tab' = [tab EXCEPT !.language = language]
    /\ hl' = LoadContent(EditorSetLanguage(hl, language))
    /\ UNCHANGED <<console, status, runner_thread, fg, threads, queue, delivered, nreq, log>>

\* new_file, with `language` the current text of lang_combo
NewFile(limit, language) ==
    /\ fg.pc = "idle"
    /\ hl.pc = "done"
    /\ nreq < limit
    /\ tab' = [language |-> language, filepath |-> NoPath, saved |-> FALSE]
    /\ hl' = LoadContent(NewEditor(language))
    /\ status' = "New file created"
    /\ UNCHANGED <<console, runner_thread, fg, threads, queue, delivered, nreq, log>>

\* open_file(filepath)
OpenFile(limit, filepath) ==
    /\ fg.pc = "idle"
    /\ hl.pc = "done"
    /\ nreq < limit
    /\ tab' = [language |-> DetectLanguage(filepath.suffix), filepath |-> filepath,
               saved |-> TRUE]
    /\ hl' = LoadContent(NewEditor(DetectLanguage(filepath.suffix)))
    /\ status' = "Opened"
    /\ UNCHANGED <<console, runner_thread, fg, threads, queue, delivered, nreq, log>>

\* the user edits the text of a tab whose file holds it, somewhere before
\* the last block; no handler of the editor writes the file
Edit(limit) ==
    /\ fg.pc = "idle"
    /\ hl.pc = "done"
    /\ nreq < limit
    /\ tab.saved
    /\ tab' = [tab EXCEPT !.saved = FALSE]
    /\ UNCHANGED <<console, status, runner_thread, fg, threads, queue, delivered, nreq, log, hl>>

\* open(self.filepath, 'w') and f.write in EditorTab.save: the file is
\* written, or an exception is raised, which save answers with a message box
\* and False
WriteOutcomes == {"written", "failed"}

\* run_code.  reply: the answer to "Save now?"; dlg: the file chosen in the
\* save dialog (NoPath: cancelled); write: how the writing of the file ends
\* in EditorTab.save; spawn: how the first subprocess.run of get_run_command
\* starts.  tab.filepath is set by EditorTab.save whether or not the file
\* could then be written; a tab that has a file path is not saved.
RunCode(limit, reply, dlg, spawn, write) ==
    /\ fg.pc = "idle"
    /\ nreq < limit
    /\ IF tab.filepath = NoPath
       THEN (reply = "No" \/ dlg = NoPath) => (spawn = "spawned" /\ write = "written")
       ELSE reply = "Yes" /\ dlg = NoPath /\ write = "written"
    /\ LET runner == LANG_CONFIG[tab.language].runner
       IN  runner \notin (CompiledRunners \cup {"csharp", "nix"}) => spawn = "spawned"
    /\ LET saving == tab.filepath = NoPath /\ reply = "Yes" /\ dlg # NoPath
           filepath == IF saving THEN SaveFilepath(tab.language, dlg) ELSE tab.filepath
           r == nreq + 1
       IN  IF filepath = NoPath
           THEN UNCHANGED vars
           ELSE LET runner == LANG_CONFIG[tab.language].runner
                    S0 == [Frame EXCEPT
                              !.console = <<Line(r, "fg", Msg("Running", tab.language, filepath, 0))>>,
                              !.status = "Running...",
                              !.log = [NoLog EXCEPT
                                          !.state = "running",
                                          !.language = tab.language,
                                          !.filepath = filepath,
                                          !.runner = runner]]
                IN  /\ tab' = [tab EXCEPT !.filepath = filepath,
                                          !.saved = IF saving THEN write = "written" ELSE @]
                    /\ nreq' = r
                    /\ UNCHANGED <<queue, delivered, hl>>
                    /\ IF runner = "browser"
                       THEN Apply(OpenInBrowser(S0, r, filepath))
                       ELSE Apply(GetRunCommand(S0, r, spawn))

\* the compiler of the request in progress ends with exit code `code`, having
\* written err to stderr (its stdout is captured and dropped); run_code goes on
CompileReturns(code, err, spawn) ==
    /\ fg.pc = "wait_compile"
    /\ (code # 0 \/ log.runner # "typescript") => spawn = "spawned"
    /\ Apply(AfterCompile(Frame, fg.req, code, err, spawn))
    /\ UNCHANGED <<tab, queue, delivered, nreq, hl>>

\* the probe ([tool, "--version"]) of the request in progress ends
ProbeReturns(code, exists) ==
    /\ fg.pc = "wait_probe"
    /\ (code # 0 \/ log.runner # "csharp") => exists
    /\ Apply(AfterProbe(Frame, fg.req, code, exists))
    /\ UNCHANGED <<tab, queue, delivered, nreq, hl>>

\* subprocess.run(["dotnet", "new", "console", "-o", "."], ...) ends; its exit
\* code is not looked at
DotnetNewReturns ==
    /\ fg.pc = "wait_dotnet_new"
    /\ Apply(RunCodeTail(Frame, fg.req, <<Lit("dotnet"), Lit("run")>>))
    /\ UNCHANGED <<tab, queue, delivered, nreq, hl>>

\* the event loop takes the oldest queued signal and calls the slot connected
\* in run_code: output -> self.console.append, finished -> showMessage("Ready")
Deliver ==
    /\ fg.pc = "idle"
    /\ queue # <<>>
    /\ LET e == Head(queue)
       IN  /\ queue' = Tail(queue)
           /\ delivered' = [delivered EXCEPT ![e.thread] = Append(@, e)]
           /\ IF e.sig = "output"
              THEN /\ console' = Append(console, Line(e.thread, "thread", e.msg))
                   /\ UNCHANGED status
              ELSE /\ status' = "Ready"
                   /\ UNCHANGED console
    /\ UNCHANGED <<tab, runner_thread, fg, threads, nreq, log, hl>>

(***************************************************************************)
(* The system                                                              *)
(***************************************************************************)
\* MochaCodespace.__init__: "Ready", then new_file() for the first language
\* of the combo box
Init ==
    /\ tab = [language |-> Languages[1], filepath |-> NoPath, saved |-> FALSE]
    /\ console = <<>>
    /\ status = "New file created"
    /\ runner_thread = 0
    /\ fg = Idle
    /\ threads = [t \in Requests |-> NoThread]
    /\ queue = <<>>
    /\ delivered = [t \in Requests |-> <<>>]
    /\ nreq = 0
    /\ log = NoLog
    /\ hl = FirstHighlighter

\* the user's actions, for at most `limit` run requests, with languages
\* from langs, dialog results from paths and files whose writing ends as in
\* writes
User(limit, langs, paths, writes) ==
    \/ \E l \in langs : OnLanguageChanged(limit, l)
    \/ \E l \in langs : NewFile(limit, l)
    \/ \E f \in paths : OpenFile(limit, f)
    \/ \E reply \in {"Yes", "No"}, dlg \in paths \cup {NoPath}, spawn \in SpawnOutcomes,
          write \in writes :
            RunCode(limit, reply, dlg, spawn, write)

\* run_code going on when the child process it waits for has ended
Toolchain ==
    \/ \E code \in ExitCodes, err \in CompilerStderr, spawn \in SpawnOutcomes :
            CompileReturns(code, err, spawn)
    \/ \E code \in ExitCodes, exists \in BOOLEAN : ProbeReturns(code, exists)
    \/ DotnetNewReturns

\* the steps of RunnerThread.run for thread t, and of its child process, which
\* ends with an exit code from codes
Background(t, codes) ==
    \/ \E spawn \in SpawnOutcomes : ThreadPopen(t, spawn)
    \/ \E out \in StdoutTexts, err \in StderrTexts : ChildExit(t, out, err)
    \/ \E code \in codes : CommunicateReturns(t, code)
    \/ CommunicateRaises(t)
    \/ CommunicateTimeout(t)
    \/ EmitStdout(t)
    \/ EmitStderr(t)
    \/ ExceptTimeout(t)
    \/ ExceptException(t)
    \/ Finally(t)

\* run() never reads process.returncode: Spec and SpecConc follow run
\* processes that end with exit code 0, SpecExit those that end with any
ZeroExit == {0}

\* Spec, SpecConc and SpecExit follow the tabs whose files are written when
\* they are saved and are not edited afterwards, SpecSave the others too
Written == {"written"}

\* every language, every file; MaxRuns run requests
Next ==
    \/ User(MaxRuns, LangSet, DialogPaths, Written)
    \/ Toolchain
    \/ Deliver
    \/ \E t \in Requests : Background(t, ZeroExit)

Spec == Init /\ [][Next]_vars

\* several run requests, also while the threads of earlier ones are running,
\* for a language that get_run_command runs directly
ConcLanguages == {"Python"}

ConcPaths == {MkPath("/w", "Hello", LANG_CONFIG[l].ext) : l \in ConcLanguages}

NextConc ==
    \/ User(MaxConcRuns, ConcLanguages, ConcPaths, Written)
    \/ Deliver
    \/ \E t \in Requests : Background(t, ZeroExit)

SpecConc == Init /\ [][NextConc]_vars

\* the same requests, with run processes that end with any exit code
NextExit ==
    \/ User(MaxConcRuns, ConcLanguages, ConcPaths, Written)
    \/ Deliver
    \/ \E t \in Requests : Background(t, ExitCodes)

SpecExit == Init /\ [][NextExit]_vars

\* the steps of RunnerThread.run for thread t alone, without those of its
\* child process
Run(t) ==
    \/ \E spawn \in SpawnOutcomes : ThreadPopen(t, spawn)
    \/ \E code \in ZeroExit : CommunicateReturns(t, code)
    \/ CommunicateRaises(t)
    \/ CommunicateTimeout(t)
    \/ EmitStdout(t)
    \/ EmitStderr(t)
    \/ ExceptTimeout(t)
    \/ ExceptException(t)
    \/ Finally(t)

\* what goes on by itself: a started thread is scheduled and each statement
\* of run() ends (Popen returns or raises, communicate returns or raises
\* after TIMEOUT seconds at the latest, emit returns); the event loop of the
\* foreground handles the queued signals; the compilers and probes that
\* run_code waits for end.  Nothing makes the user act or a run process end.
Fairness ==
    /\ \A t \in Requests : WF_vars(Run(t))
    /\ WF_vars(Deliver)
    /\ WF_vars(Toolchain)

\* Spec, going on as long as something can go on by itself
SpecFair == Init /\ [][Next]_vars /\ Fairness

\* run requests for languages that are run directly, going on as long as
\* something can go on by itself
LiveLanguages == {"Python", "Ruby"}

LivePaths == {MkPath("/w", "Hello", LANG_CONFIG[l].ext) : l \in LiveLanguages}

NextLive ==
    \/ User(MaxRuns, LiveLanguages, LivePaths, Written)
    \/ Deliver
    \/ \E t \in Requests : Background(t, ZeroExit)

SpecLive == Init /\ [][NextLive]_vars /\ Fairness

\* run requests for tabs that have been edited and for files that cannot be
\* written, for a language that is run directly and one that is compiled
SaveLanguages == {"Python", "C"}

SavePaths == {MkPath("/w", "Hello", LANG_CONFIG[l].ext) : l \in SaveLanguages}

NextSave ==
    \/ User(MaxRuns, SaveLanguages, SavePaths, WriteOutcomes)
    \/ Edit(MaxRuns)
    \/ \E code \in ExitCodes, err \in CompilerStderr : CompileReturns(code, err, "spawned")
    \/ Deliver
    \/ \E t \in Requests : Background(t, ZeroExit)

SpecSave == Init /\ [][NextSave]_vars

\* the user edits the last block of the current tab's document, changes the
\* tab's language, makes and opens tabs; the other specifications do not
\* follow the text of the documents
\* the files opened and the languages of the tabs made while the text is followed
HLPaths == {MkPath("/w", "Hello", ".txt"), MkPath("/w", "Hello", ".RS")}

HLNewLanguages == {"Python", "C#"}

NextHL ==
    \/ \E c \in Chars : TypeChar(c)
    \/ \E line \in SampleBlocks : PasteLine(line)
    \/ HighlightBlock
    \/ \E l \in LangSet : OnLanguageChanged(MaxRuns, l)
    \/ \E l \in HLNewLanguages : NewFile(MaxRuns, l)
    \/ \E f \in HLPaths : OpenFile(MaxRuns, f)

SpecHL == Init /\ [][NextHL]_vars

\* language identifiers that LANG_CONFIG does not have
Unregistered == {"Brainfuck", ""}

\* SyntaxHighlighter(document, language) for any identifier, and
\* highlightBlock(text) for a block of its document
Construct(language, text) ==
    /\ hl' = [NewEditor(language) EXCEPT
                 !.text = text,
                 !.formats = highlightBlock(Rules(NewEditor(language)), text)]
    /\ UNCHANGED <<tab, console, status, runner_thread, fg, threads, queue, delivered, nreq, log>>

\* setup_rules and highlightBlock as functions of the language identifier and
\* the text
NextRules ==
    \E language \in LangSet \cup Unregistered, text \in SampleBlocks \cup {<<>>} :
        Construct(language, text)

SpecRules == Init /\ [][NextRules]_vars

(***************************************************************************)
(* Properties of RunnerThread.run and of the delivery of its signals       *)
(***************************************************************************)
Started(t) == threads[t].pc # "none"

Ended(t) == threads[t].pc = "done"

FinishedEvent(t) == Event(t, "finished", NoMsg)

\* how often thread t has emitted finished
FinishedCount(t) ==
    Cardinality({i \in DOMAIN threads[t].emitted : threads[t].emitted[i].sig = "finished"})

IsPrefix(a, b) == Len(a) <= Len(b) /\ \A i \in DOMAIN a : a[i] = b[i]

IsSuffix(a, b) ==
    Len(a) <= Len(b) /\ \A i \in DOMAIN a : a[i] = b[Len(b) - Len(a) + i]

\* the messages of the output signals among the signals q, in order
RECURSIVE SelectOutputs(_)
SelectOutputs(q) ==
    IF q = <<>> THEN <<>>
    ELSE IF Head(q).sig = "output" THEN <<Head(q).msg>> \o SelectOutputs(Tail(q))
    ELSE SelectOutputs(Tail(q))

\* the messages on the console that thread t produced, in console order
RECURSIVE ConsoleOf(_, _)
ConsoleOf(t, c) ==
    IF c = <<>> THEN <<>>
    ELSE IF Head(c).src = "thread" /\ Head(c).req = t
         THEN <<Head(c).msg>> \o ConsoleOf(t, Tail(c))
    ELSE ConsoleOf(t, Tail(c))

TimeoutEvent(t) == Event(t, "output", Msg("Timeout", "", NoPath, TIMEOUT))

\* C1: every started RunnerThread emits finished exactly once, on each path
\* through run(): never more than once, not before run() has reached its end,
\* and once when run() has ended; no run() ends without it.
C1_FinishedExactlyOnce ==
    \A t \in Requests :
        /\ FinishedCount(t) = (IF Ended(t) THEN 1 ELSE 0)
        /\ ~threads[t].raised

\* two threads have ended, one after a timeout and one after a spawn error
C1_Witness ==
    \E t, u \in Requests :
        /\ Ended(t) /\ threads[t].outcome = "timeout"
        /\ Ended(u) /\ threads[u].outcome = "spawn_error"

\* C2 (as claimed): while a thread of an earlier request is still executing,
\* none of its output is on the console of the latest request: every line on
\* the console that is not of the latest request comes from a thread that
\* had ended.
C2_NoOutputOfEarlierRun ==
    \A i \in DOMAIN console :
        console[i].req # nreq => Ended(console[i].req)

\* C3 (as claimed): once the timeout path has signalled completion, the child
\* process of that thread is not running.
C3_TimedOutChildNotRunning ==
    \A t \in Requests :
        (threads[t].outcome = "timeout" /\ Ended(t)) => threads[t].proc # "running"

\* C4: on the timeout path the thread emits the timeout message, then
\* finished, and nothing else.
C4_TimeoutPathEmits ==
    \A t \in Requests :
        threads[t].outcome = "timeout" =>
            /\ IsPrefix(threads[t].emitted, <<TimeoutEvent(t), FinishedEvent(t)>>)
            /\ Ended(t) => threads[t].emitted = <<TimeoutEvent(t), FinishedEvent(t)>>

C4_Witness ==
    \E t \in Requests : Ended(t) /\ threads[t].outcome = "timeout"

\* C5: after a spawn error (file not found, another OSError) the thread emits
\* one message that carries the error, then finished, and no exception
\* leaves run().
C5_SpawnErrorReported ==
    \A t \in Requests :
        threads[t].outcome = "spawn_error" =>
            LET said == Event(t, "output", Msg("Error", threads[t].error, NoPath, 0))
            IN  /\ threads[t].error \in {"notfound", "oserror"}
                /\ IsPrefix(threads[t].emitted, <<said, FinishedEvent(t)>>)
                /\ Ended(t) => threads[t].emitted = <<said, FinishedEvent(t)>>
                /\ ~threads[t].raised

C5_Witness ==
    \E t, u \in Requests :
        /\ Ended(t) /\ threads[t].outcome = "spawn_error" /\ threads[t].error = "oserror"
        /\ Ended(u) /\ threads[u].outcome = "spawn_error" /\ threads[u].error = "notfound"

\* what a thread whose communicate returned emits: the stdout block if it is
\* not empty, the stderr block if it is not empty, then finished
ExpectedEmits(t) ==
    (IF threads[t].pout # "" THEN <<Event(t, "output", Msg("Text", threads[t].pout, NoPath, 0))>>
     ELSE <<>>)
    \o (IF threads[t].perr # "" THEN <<Event(t, "output", Msg("Text", threads[t].perr, NoPath, 0))>>
        ELSE <<>>)
    \o <<FinishedEvent(t)>>

\* C6: a thread whose process ended before the timeout emits what the process
\* wrote, stdout then stderr, before finished; the foreground is given the
\* signals of a thread in the order of emission (so finished after all the
\* output), and the console shows the output of a thread in that order.
C6_OutputBeforeCompletionInOrder ==
    \A t \in Requests :
        /\ threads[t].outcome = "returned" =>
                /\ IsPrefix(threads[t].emitted, ExpectedEmits(t))
                /\ Ended(t) => threads[t].emitted = ExpectedEmits(t)
        /\ IsPrefix(delivered[t], threads[t].emitted)
        /\ IsSuffix(ConsoleOf(t, console), SelectOutputs(delivered[t]))

\* a thread has delivered stdout, stderr and finished, and both blocks are on
\* the console
C6_Witness ==
    \E t \in Requests :
        /\ threads[t].outcome = "returned"
        /\ threads[t].pout # "" /\ threads[t].perr # ""
        /\ delivered[t] = ExpectedEmits(t)
        /\ Len(ConsoleOf(t, console)) = 2

(***************************************************************************)
(* Properties of run_code and get_run_command.  log is the record of the   *)
(* latest request, nreq its number; the thread of request r is threads[r]. *)
(***************************************************************************)
\* the console holds the line m, appended by run_code for the latest request
HasLine(m) == \E i \in DOMAIN console : console[i] = Line(nreq, "fg", m)

\* no RunnerThread was made for the latest request
NoRunnerThread ==
    /\ ~log.started
    /\ log.command = <<>>
    /\ nreq \in Requests => ~Started(nreq)
    /\ runner_thread # nreq

\* a RunnerThread was made and started for the latest request, and it is the
\* one self.runner_thread refers to
OneRunnerThread ==
    /\ log.started
    /\ Started(nreq)
    /\ runner_thread = nreq

CompiledLanguages == {l \in LangSet : LANG_CONFIG[l].runner \in CompiledRunners}

\* the file or class a compile command asks the compiler for: the word after
\* -o or -d; for javac the class named after the source; for tsc the .js file
\* beside the source
Artifact(cmd) ==
    IF \E i \in 1..(Len(cmd) - 1) : cmd[i] \in {Lit("-o"), Lit("-d")}
    THEN cmd[(CHOOSE i \in 1..(Len(cmd) - 1) : cmd[i] \in {Lit("-o"), Lit("-d")}) + 1]
    ELSE IF cmd[1] = Lit("javac") THEN Lit(cmd[2].path.stem)
    ELSE Str(WithSuffix(cmd[2].path, ".js"))

\* C7 (as claimed): the foreground is never inside a call that waits for a
\* child process.
C7_ForegroundNeverWaits == fg.pc \notin WaitStates

\* C8: the compile-then-run languages are Java, C, C++, Rust, TypeScript and
\* Kotlin; when the compiler of such a request is not found, the console says
\* so with the name of the compiler that was called, and no RunnerThread is
\* made for the request.
C8_CompilerNotFound ==
    /\ CompiledLanguages = {"Java", "C", "C++", "Rust", "TypeScript", "Kotlin"}
    /\ log.compile = "missing" =>
            /\ log.language \in CompiledLanguages
            /\ HasLine(Msg("CompilerNotFound",
                           CompileCmd(log.runner, log.filepath)[1].lit, NoPath, 0))
            /\ NoRunnerThread

C8_Witness ==
    /\ log.state = "returned"
    /\ log.compile = "missing"
    /\ log.language = "C++"

\* C9: when the compiler of a request exits non-zero, the console holds the
\* whole text the compiler wrote to stderr, and no RunnerThread is made for
\* the request.
C9_CompilationFailed ==
    log.compile = "failed" =>
        /\ log.language \in CompiledLanguages
        /\ HasLine(Msg("CompilationFailed", log.cstderr, NoPath, 0))
        /\ NoRunnerThread

C9_Witness ==
    /\ log.state = "returned"
    /\ log.compile = "failed"
    /\ log.cstderr = "diag"
    /\ log.language = "Rust"

\* the latest request compiled without error, and what follows from it when
\* run_code has returned
CompiledOk == log.compile = "ok"

RunsTheArtifact ==
    /\ OneRunnerThread
    /\ log.command[Len(log.command)] = Artifact(CompileCmd(log.runner, log.filepath))

WarningsShown ==
    log.cstderr # "" => HasLine(Msg("CompilerOutput", log.cstderr, NoPath, 0))

\* C10 (as claimed): after a compile that exits zero the diagnostics are on
\* the console and, once run_code has returned, one RunnerThread runs the
\* artifact the compile command asked for.
C10_CompiledThenRun ==
    CompiledOk =>
        /\ WarningsShown
        /\ log.state = "returned" => RunsTheArtifact

\* C10 (amended): the same, except that for TypeScript the thread is started
\* only when the node probe succeeded.
C10_CompiledThenRunUnlessNoNode ==
    CompiledOk =>
        /\ log.language \in CompiledLanguages
        /\ WarningsShown
        /\ (log.state = "returned" /\ (log.runner = "typescript" => log.probe = "ok"))
                => RunsTheArtifact

C10_Witness ==
    /\ CompiledOk
    /\ log.state = "returned"
    /\ log.language = "TypeScript"
    /\ log.probe = "ok"
    /\ log.cstderr = "diag"
    /\ OneRunnerThread

BrowserLanguages == {l \in LangSet : LANG_CONFIG[l].runner = "browser"}

\* C11: the open-externally languages are HTML and CSS; a run request for one
\* of them hands the saved file to the external viewer, says so on the
\* console, runs no compiler and no probe, never waits for a process, and
\* makes no RunnerThread.
C11_OpenExternally ==
    /\ BrowserLanguages = {"HTML", "CSS"}
    /\ log.runner = "browser" =>
            /\ log.language \in BrowserLanguages
            /\ log.state = "returned"
            /\ log.opened = log.filepath
            /\ HasLine(Msg("OpenedInBrowser", "", log.filepath, 0))
            /\ log.compile = "none" /\ log.probe = "none"
            /\ NoRunnerThread

C11_Witness ==
    /\ log.runner = "browser"
    /\ log.language = "CSS"
    /\ log.opened = MkPath("/w", "Hello", ".css")

ErrorKinds ==
    {"CompilerNotFound", "SdkNotFound", "CompilationFailed", "CannotRun", "Timeout", "Error"}

\* the number of error messages on the console for request r
ErrorLines(r) ==
    Cardinality({i \in DOMAIN console :
                    console[i].req = r /\ console[i].msg.kind \in ErrorKinds})

\* C13 (as claimed): no exception leaves run_code, get_run_command or run();
\* a request whose compiler or SDK is missing or whose compile failed has
\* exactly one error message on the console when run_code has returned; a
\* thread that ended after a timeout or a spawn error has emitted exactly one
\* output message.
C13_OneMessagePerErrorNoEscape ==
    /\ log.state # "raised"
    /\ \A t \in Requests : ~threads[t].raised
    /\ (log.state = "returned"
            /\ (log.compile \in {"missing", "failed"} \/ log.probe \in {"missing", "failed"}))
          => ErrorLines(nreq) = 1
    /\ \A t \in Requests :
            (Ended(t) /\ threads[t].outcome \in {"timeout", "spawn_error"})
                => Len(SelectOutputs(threads[t].emitted)) = 1

\* C14 (as claimed): a request whose compiler ran and exited non-zero has no
\* console message saying that a compiler or interpreter was not found, and a
\* request whose compiler was not found has no compilation-failed message.
C14_NotFoundDistinctFromFailed ==
    /\ log.compile = "failed" =>
            \A i \in DOMAIN console :
                console[i].req = nreq =>
                    console[i].msg.kind \notin {"CompilerNotFound", "SdkNotFound", "CannotRun"}
    /\ log.compile = "missing" =>
            \A i \in DOMAIN console :
                console[i].req = nreq => console[i].msg.kind # "CompilationFailed"

\* what thread t has handed to the caller: its signals, without its identity
Handed(t) ==
    [i \in DOMAIN threads[t].emitted |->
        [sig |-> threads[t].emitted[i].sig, msg |-> threads[t].emitted[i].msg]]

\* C15 (as claimed): of two runs that ended with the same captured output,
\* one with exit code 0 and one with a non-zero exit code, the caller is
\* handed different things.
C15_ExitCodeDistinguished ==
    \A t, u \in Requests :
        (/\ Ended(t) /\ threads[t].outcome = "returned" /\ threads[t].returncode = 0
         /\ Ended(u) /\ threads[u].outcome = "returned" /\ threads[u].returncode > 0
         /\ threads[t].pout = threads[u].pout
         /\ threads[t].perr = threads[u].perr)
            => Handed(t) # Handed(u)

(***************************************************************************)
(* Who changes the console and the status bar                              *)
(***************************************************************************)
\* a step of some RunnerThread's run(), or of its child process
ThreadStep == \E t \in Requests : Background(t, ExitCodes)

\* the lines a step appends to the console
NewLines == {i \in DOMAIN console' : i > Len(console)}

\* C16: no step of a RunnerThread changes the console, the status bar, the
\* tab or self.runner_thread; a line of thread output is appended to the
\* console only by the foreground event loop, while no handler is running,
\* and it is the output signal at the head of the queue of emitted signals.
C16_OnlyForegroundTouchesUI ==
    [][/\ ThreadStep => UNCHANGED <<console, status, tab, runner_thread>>
       /\ \A i \in NewLines :
            console'[i].src = "thread" =>
                /\ fg.pc = "idle"
                /\ queue # <<>>
                /\ Head(queue) = Event(console'[i].req, "output", console'[i].msg)
                /\ queue' = Tail(queue)]_vars

\* a thread has ended after a spawn error; its message is on the console and
\* the status bar says "Ready", both by delivery of its signals
C16_Witness ==
    \E t \in Requests :
        /\ Ended(t)
        /\ threads[t].outcome = "spawn_error"
        /\ delivered[t] = threads[t].emitted
        /\ Len(ConsoleOf(t, console)) = 1
        /\ status = "Ready"

(***************************************************************************)
(* Properties of LANG_CONFIG and open_file                                 *)
(***************************************************************************)
Registered(suffix) == \E l \in LangSet : LANG_CONFIG[l].ext = Lower(suffix)

\* no two languages of LANG_CONFIG have the same extension
ExtensionsUnique ==
    \A l, m \in LangSet : LANG_CONFIG[l].ext = LANG_CONFIG[m].ext => l = m

\* open_file's lookup on a file with a language's extension yields the language
LookupRoundTrips ==
    \A l \in LangSet : DetectLanguage(MkPath("/w", "Hello", LANG_CONFIG[l].ext).suffix) = l

\* C17: no two languages of LANG_CONFIG have the same extension; for every
\* language L, open_file's lookup on a file with L's extension yields L; and
\* a tab that open_file has just made has the language whose extension its
\* file has.
C17_ExtensionRoundTrip ==
    /\ ExtensionsUnique
    /\ LookupRoundTrips
    /\ status = "Opened" =>
            \A l \in LangSet :
                LANG_CONFIG[l].ext = Lower(tab.filepath.suffix) => tab.language = l

\* open_file has opened a file with the extension of the last language
C17_Witness ==
    /\ status = "Opened"
    /\ tab.filepath = MkPath("/w", "Hello", ".nix")
    /\ tab.language = "Nix"

\* C18 (as claimed): a tab that open_file has just made for a file whose
\* extension no language has, has the first language of LANG_CONFIG.
C18_UnmatchedIsFirstLanguage ==
    (status = "Opened" /\ ~Registered(tab.filepath.suffix)) => tab.language = Languages[1]

\* C18 (amended): such a tab has the language "Python", which is not the
\* first language of LANG_CONFIG.
C18_UnmatchedIsPython ==
    /\ Languages[1] # "Python"
    /\ (status = "Opened" /\ ~Registered(tab.filepath.suffix)) => tab.language = "Python"

C18_Witness ==
    /\ status = "Opened"
    /\ tab.filepath = MkPath("/w", "Hello", ".txt")
    /\ tab.language = "Python"

(***************************************************************************)
(* Properties of setup_rules and highlightBlock                            *)
(***************************************************************************)
\* the match of rule r of `rules` in `text` that covers position k, if any
Covers(rules, r, text, k) ==
    LET matches == FindIter(rules[r], text, 1)
    IN  \E j \in DOMAIN matches : matches[j].start <= k /\ k < matches[j].end

\* the rules that have a match covering position k
Covering(rules, text, k) == {r \in DOMAIN rules : Covers(rules, r, text, k)}

\* the last of a non-empty set of rule numbers
Last(R) == CHOOSE r \in R : \A q \in R : q <= r

\* C19: when highlightBlock has processed a block, every position covered by
\* a match of some rule has the format of the last rule of the list that has
\* a match covering it, and every other position has no format.
C19_LastRuleWins ==
    hl.pc = "done" =>
        LET rules == setup_rules(hl.language)
        IN  /\ DOMAIN hl.formats = DOMAIN hl.text
            /\ \A k \in DOMAIN hl.text :
                    LET R == Covering(rules, hl.text, k)
                    IN  hl.formats[k] = IF R = {} THEN "None" ELSE rules[Last(R)].fmt

\* a keyword rule and the later comment rule both match in "#if": the
\* keyword's characters have the comment format, not that of the first match
C19_Witness ==
    /\ hl.pc = "done"
    /\ hl.language = "Ruby"
    /\ hl.text = <<"#", "i", "f">>
    /\ hl.formats = <<"Comment", "Comment", "Comment">>
    /\ \E r \in DOMAIN setup_rules("Ruby") :
            /\ setup_rules("Ruby")[r].fmt = "Keyword"
            /\ Covers(setup_rules("Ruby"), r, hl.text, 2)

\* the place of a format in the order of setup_rules
Rank(fmt) ==
    CASE fmt = "Keyword" -> 1
      [] fmt = "String" -> 2
      [] fmt = "Number" -> 3
      [] fmt = "CallTarget" -> 4
      [] OTHER -> 5

\* the number of rules with format fmt
Count(rules, fmt) == Cardinality({r \in DOMAIN rules : rules[r].fmt = fmt})

\* C20: the rule list of the highlighter's language has its keyword rules
\* (one for each keyword of the language) first, then the two string rules,
\* the number rule, the call-target rule, and the comment rules last; and
\* when highlightBlock has processed a block, every position covered by a
\* match of a comment rule has the comment format, whatever else matches
\* there.
C20_CommentRulesLast ==
    LET rules == setup_rules(hl.language)
    IN  /\ \A r \in 1..(Len(rules) - 1) : Rank(rules[r].fmt) <= Rank(rules[r + 1].fmt)
        /\ Count(rules, "Keyword") = Len(LANGUAGE_KEYWORDS[hl.language])
        /\ Count(rules, "String") = 2
        /\ Count(rules, "Number") = 1
        /\ Count(rules, "CallTarget") = 1
        /\ hl.pc = "done" =>
                \A k \in DOMAIN hl.text :
                    (\E r \in DOMAIN rules : rules[r].fmt = "Comment" /\ Covers(rules, r, hl.text, k))
                        => hl.formats[k] = "Comment"

\* the line "# if True" in Python: "if" and "True" match keyword rules, and
\* the whole line has the comment format
C20_Witness ==
    /\ hl.pc = "done"
    /\ hl.language = "Python"
    /\ hl.text = <<"#", " ", "i", "f", " ", "T", "r", "u", "e">>
    /\ \A k \in DOMAIN hl.text : hl.formats[k] = "Comment"
    /\ Covering(setup_rules("Python"), hl.text, 3) # {}
    /\ \E r \in Covering(setup_rules("Python"), hl.text, 6) :
            setup_rules("Python")[r].fmt = "Keyword"

(***************************************************************************)
(* Properties of the highlighter's rule list                               *)
(***************************************************************************)
\* the rules setup_rules appends for every language
GenericRules == <<StringRule("\""), StringRule("'"), NumberRule, FunctionRule>>

\* C21 (as claimed): the highlighter of a language identifier that is not
\* registered has an empty rule list, and no character of a block it
\* highlights gets a format.
C21_UnregisteredNoRules ==
    hl.language \notin LangSet =>
        /\ Rules(hl) = <<>>
        /\ \A k \in DOMAIN hl.formats : hl.formats[k] = "None"

\* C21 (amended): the highlighter of a language identifier that is not
\* registered has no keyword and no comment rule; its rule list is the two
\* string rules, the number rule and the call-target rule.  highlightBlock
\* gives every character of the block a format (no error), never Keyword or
\* Comment, and none where no string, number or call target is.
C21_UnregisteredGenericRules ==
    hl.language \notin LangSet =>
        /\ Rules(hl) = GenericRules
        /\ DOMAIN hl.formats = DOMAIN hl.text
        /\ \A k \in DOMAIN hl.formats :
                /\ hl.formats[k] \in {"None", "String", "Number", "CallTarget"}
                /\ hl.formats[k] # "None" =>
                        \E r \in DOMAIN GenericRules :
                            \E m \in DOMAIN FindIter(GenericRules[r], hl.text, 1) :
                                LET match == FindIter(GenericRules[r], hl.text, 1)[m]
                                IN  match.start <= k /\ k < match.end

\* a highlighter of an unregistered language has marked the call target of
\* foo(bar) and nothing else
C21_Witness ==
    /\ hl.language = "Brainfuck"
    /\ hl.text = <<"f", "o", "o", "(", "b", "a", "r", ")">>
    /\ hl.formats = <<"CallTarget", "CallTarget", "CallTarget", "None", "None", "None",
                      "None", "None">>

\* C22: for every language, highlightBlock on a block without characters
\* finds no match of any rule, so it calls setFormat for no span, and the
\* block has no format.
C22_EmptyBlockNoSpan ==
    (hl.pc = "done" /\ hl.text = <<>>) =>
        /\ LET rules == Rules(hl)
           IN  \A r \in DOMAIN rules : FindIter(rules[r], hl.text, 1) = <<>>
        /\ hl.formats = <<>>

\* the empty last block of a CSS tab has been highlighted with CSS's rules
C22_Witness ==
    /\ hl.pc = "done"
    /\ hl.text = <<>>
    /\ hl.language = "CSS"
    /\ Len(Rules(hl)) = Len(LANGUAGE_KEYWORDS["CSS"]) + 5
    /\ hl.formats = <<>>

\* the matches of the call-target rule
CallTargetMatches(text) ==
    {FindIter(FunctionRule, text, 1)[m] : m \in DOMAIN FindIter(FunctionRule, text, 1)}

\* the identifier-shaped tokens of text that "(" follows: s is the position
\* of the first character, e the position of the parenthesis
CallTargetTokens(text) ==
    {span \in [start : 1..Len(text), end : 1..Len(text)] :
        /\ span.start < span.end
        /\ \A k \in span.start..(span.end - 1) : text[k] \in WordChars
        /\ text[span.start] \in Letters \cup {"_"}
        /\ CharAt(text, span.start - 1) \notin WordChars
        /\ text[span.end] = "("}

\* C23: every language's rule list has the call-target rule; its matches in
\* a block are exactly the identifier-shaped tokens that "(" follows, each
\* match ending in front of the parenthesis; in foo(bar) the only match is
\* foo.
C23_CallTargetFollowedByParen ==
    /\ LET rules == Rules(hl)
       IN  \E r \in DOMAIN rules : rules[r] = FunctionRule
    /\ CallTargetMatches(hl.text) = CallTargetTokens(hl.text)
    /\ hl.text = <<"f", "o", "o", "(", "b", "a", "r", ")">> =>
            FindIter(FunctionRule, hl.text, 1) = <<[start |-> 1, end |-> 4]>>

\* foo(bar) has been highlighted for Python: foo is a call target, bar and
\* the parentheses have no format
C23_Witness ==
    /\ hl.pc = "done"
    /\ hl.language = "Python"
    /\ hl.text = <<"f", "o", "o", "(", "b", "a", "r", ")">>
    /\ hl.formats = <<"CallTarget", "CallTarget", "CallTarget", "None", "None", "None",
                      "None", "None">>

\* a step in which a call of highlightBlock runs
HighlightStep == hl.pc = "called" /\ hl'.pc = "done"

\* C24: a step of highlightBlock leaves the highlighter's language, its rule
\* list and the text of the block as they are; a step that changes the rule
\* list is a step of a handler that makes a highlighter or sets its language,
\* and leaves the list that setup_rules builds from nothing for the
\* highlighter's language.
C24_HighlightBlockFrameRebuildOnly ==
    [][/\ HighlightStep =>
            /\ hl'.language = hl.language
            /\ Rules(hl') = Rules(hl)
            /\ hl'.text = hl.text
       /\ Rules(hl') # Rules(hl) =>
            /\ ~HighlightStep
            /\ hl'.language # hl.language
            /\ Rules(hl') = setup_rules(hl'.language)]_vars

\* after a switch from PTX, with its 160 keyword rules, to Lua, which has
\* none, a Lua comment has been highlighted by Lua's five rules
C24_Witness ==
    /\ hl.pc = "done"
    /\ hl.language = "Lua"
    /\ Rules(hl) = setup_rules("Lua")
    /\ Len(Rules(hl)) = 5
    /\ hl.text = <<"-", "-", " ", "i", "f">>
    /\ \A k \in DOMAIN hl.text : hl.formats[k] = "Comment"

\* C29: the tab's language, its editor's language and its highlighter's
\* language are the same, and the highlighter's rule list is the one that
\* setup_rules builds for that language.
C29_LanguagesAgree ==
    /\ hl.editor_language = tab.language
    /\ hl.language = tab.language
    /\ Rules(hl) = setup_rules(tab.language)

\* the language of a tab without file has been changed to Kotlin, and a block
\* typed afterwards has been highlighted
C29_Witness ==
    /\ tab.filepath = NoPath
    /\ tab.language = "Kotlin"
    /\ hl.editor_language = "Kotlin"
    /\ hl.language = "Kotlin"
    /\ Rules(hl) = setup_rules("Kotlin")
    /\ hl.pc = "done"
    /\ hl.text = <<"/", "/">>
    /\ hl.formats = <<"Comment", "Comment">>

\* the characters of LANG_CONFIG[language]["comment"]
CommentMarker(language) ==
    LET comment == LANG_CONFIG[language].comment
    IN  CASE comment = "// "   -> <<"/", "/", " ">>
          [] comment = "# "    -> <<"#", " ">>
          [] comment = "-- "   -> <<"-", "-", " ">>
          [] comment = "/* "   -> <<"/", "*", " ">>
          [] OTHER             -> <<"<", "!", "-", "-", " ">>

\* C30: when a block that begins with the comment marker registered for the
\* tab's language has been highlighted, the marker has the Comment format.
C30_RegisteredMarkerIsComment ==
    (hl.pc = "done" /\ HasAt(hl.text, 1, CommentMarker(tab.language))) =>
        \A k \in 1..Len(CommentMarker(tab.language)) : hl.formats[k] = "Comment"

(***************************************************************************)
(* Properties of the save step of run_code                                 *)
(***************************************************************************)
\* a step in which run_code starts a compiler, or makes and starts a
\* RunnerThread for the run process
StartsProcess ==
    \/ fg.pc = "idle" /\ fg'.pc = "wait_compile"
    \/ \E t \in Requests : threads[t].pc = "none" /\ threads'[t].pc = "popen"

\* C26: when run_code starts a compiler or a run process, the file at
\* tab.filepath holds the text of the tab's editor.
C26_FileHoldsTextWhenRun == [][StartsProcess => tab'.saved]_vars

\* C27: a step on a tab without file path that does not leave the tab's text
\* in a file (there was no save, or the save failed) leaves the tab without
\* file path, is not counted as a run request and starts no compiler and no
\* run process.
C27_FailedSaveStartsNothing ==
    [][(tab.filepath = NoPath /\ ~tab'.saved) =>
            /\ tab'.filepath = NoPath
            /\ nreq' = nreq
            /\ ~StartsProcess]_vars

(***************************************************************************)
(* Progress of a run request                                               *)
(***************************************************************************)
\* the slot connected to thread t's finished signal has been called
Completed(t) == \E i \in DOMAIN delivered[t] : delivered[t][i] = FinishedEvent(t)

\* C25: every RunnerThread that has been started emits finished, and the
\* foreground gets it, whether or not the child process ever ends.
C25_StartedThreadCompletes ==
    \A t \in Requests : Started(t) ~> (FinishedCount(t) = 1 /\ Completed(t))

\* the run of a thread whose child process has not ended is complete: run()
\* gave up after the timeout and the foreground has got finished
C25_Witness ==
    \E t \in Requests :
        /\ threads[t].outcome = "timeout"
        /\ threads[t].proc = "running"
        /\ Ended(t)
        /\ Completed(t)
        /\ status = "Ready"

\* C28: once the status is "Running...", it is "Ready" again at some later
\* time, however the request goes on.
C28_RunningLeadsToReady == (status = "Running...") ~> (status = "Ready")

====
